---- MODULE Spec2Model ----
(***************************************************************************)
(* State-machine model of docs/src/Game.js (class Game): the static        *)
(* collider list and its asynchronous world build, turret drag-and-drop    *)
(* placement, and the per-frame combat passes of animate().                *)
(*                                                                         *)
(* Lengths are integers in units of 0.1 m (TURRET_RADIUS 1.6 m = 16), so   *)
(* every comparison of the source is exact integer arithmetic.             *)
(*                                                                         *)
(* Specifications:                                                         *)
(*   Spec        the world build with the turret drag events around it     *)
(*   SpecBuild   the world build alone                                     *)
(*   SpecCombat  the frames of a built world with one turret               *)
(*   SpecLife    those frames with the pause key, a heart and a molotov    *)
(*   SpecOrder   those frames with the log of each frame kept              *)
(*   SpecPass    the knife callback and the passes of animate, one by one  *)
(*   SpecPlay    the then-callback, the frames, the pause key and the      *)
(*               turret drag events of a built world                       *)
(*   SpecAttack  the attack check of the enemy loop in detail              *)
(*   SpecTokens  the turret and molotov drag events with few tokens left   *)
(*   SpecClock   the frames and the pause key with the time between them   *)
(*   SpecValid   isTurretPlacementValid over chosen inputs                 *)
(***************************************************************************)
EXTENDS Integers, Sequences, FiniteSets, TLC

VARIABLES
  pc,               \* where loadStaticModels / the constructor's then-callback stands
  staticColliders,  \* this.staticColliders: sequence of Box3
  loopN,            \* n of the rock / fence loop
  attempt,          \* attempt of the inner sampling loop
  placed,           \* placed flag of the inner sampling loop
  instStart,        \* history: staticColliders when the current instance began
  placedLog,        \* history: <<index, position, kind>> of every validated commit
  turrets,          \* this.turrets: sequence of turret records
  turretTokens,     \* this.turretTokens
  mana,             \* this.player.mana
  draggingTurret,   \* this.draggingTurret ({img, ghost} or null)
  lastUp,           \* history: how the pointer-up of the last drag ended (see NoUp)
  molotovTokens,    \* this.molotovTokens
  draggingMolotov,  \* this.draggingMolotov is set ({img, ghost}) or null
  importing,        \* molotov pointer-up handlers suspended in `await import`
  mouseLeft,        \* this.input['MouseLeft']
  clock,            \* this.clock (THREE.Clock) and the time it reads (see NoClock)
  enemies,          \* this.enemySpawner.enemies: the live enemies
  bullets,          \* this.bullets
  trace,            \* history: flags raised inside a frame (see NoTrace)
  pickups,          \* this.pickups
  molotovs,         \* this.molotovs
  playerHealth,     \* this.player.health
  paused,           \* this.paused
  isGameOver,       \* this.isGameOver
  deathScene,       \* what onPlayerDeath has staged (see NoDeathScene)
  pathfinder,       \* this.pathfinder (see NoPathfinder)
  enemySpawner      \* this.enemySpawner, but for its enemies (see NoSpawner)

buildVars == <<pc, staticColliders, loopN, attempt, placed, instStart, placedLog>>
molotovVars == <<molotovTokens, draggingMolotov, importing>>
inputVars == <<mouseLeft>>
uiVars    == <<turrets, turretTokens, mana, draggingTurret, lastUp, molotovVars, inputVars>>
combatVars == <<enemies, bullets, trace, pickups, molotovs, playerHealth>>
lifeVars  == <<paused, isGameOver, deathScene>>
bootVars  == <<pathfinder, enemySpawner>>
simVars   == <<combatVars, lifeVars, bootVars, clock>>
vars      == <<buildVars, uiVars, simVars>>

(***************************************************************************)
(* THREE.Vector3 / THREE.Box3 as the source uses them                      *)
(***************************************************************************)
Vec3(x, y, z) == [x |-> x, y |-> y, z |-> z]

Box3(mn, mx) == [min |-> mn, max |-> mx]

setY(v, y) == [v EXCEPT !.y = y]

distanceToSquared(a, b) ==
  (a.x - b.x) * (a.x - b.x) + (a.y - b.y) * (a.y - b.y) + (a.z - b.z) * (a.z - b.z)

\* Box3.intersectsBox: boxes that only touch do intersect
intersectsBox(a, b) ==
  ~ (  b.max.x < a.min.x \/ b.min.x > a.max.x
    \/ b.max.y < a.min.y \/ b.min.y > a.max.y
    \/ b.max.z < a.min.z \/ b.min.z > a.max.z )

expandByScalar(b, s) ==
  Box3(Vec3(b.min.x - s, b.min.y - s, b.min.z - s),
       Vec3(b.max.x + s, b.max.y + s, b.max.z + s))

\* Box3.setFromObject of a clone placed at pos whose local box is lb, scaled by s
setFromObject(pos, lb, s) ==
  Box3(Vec3(pos.x + s * lb.min.x, pos.y + s * lb.min.y, pos.z + s * lb.min.z),
       Vec3(pos.x + s * lb.max.x, pos.y + s * lb.max.y, pos.z + s * lb.max.z))

\* Array.prototype.some over the collider list
some(colliders, box) == \E i \in 1..Len(colliders) : intersectsBox(colliders[i], box)

(***************************************************************************)
(* Constructor constants                                                   *)
(***************************************************************************)
playerSpawnPos == Vec3(0, 0, 0)

reservedRadius == 600

reservedRadiusSq == reservedRadius * reservedRadius

TURRET_RADIUS == 16

mapHalf == 2500

rockCount == 15

fenceCount == 5

maxAttempts == 40

fenceScale == 8

turretCost == 50

initialTurretTokens == 1900

initialMolotovTokens == 1000

molotovCost == 50

\* bound of the model: turrets that can be placed in one run
MaxTurrets == 3

(***************************************************************************)
(* Bounding volumes of the glTF assets, in the model's units.  The source  *)
(* only measures them (setFromObject); the values stand for the assets.    *)
(***************************************************************************)
\* barn meshes after scale 30, relative to barnRoot.position: either a hall and
\* a roof lying above turret height, or one mesh that spans the car's spawn point
barnMeshBoxes ==
  { << Box3(Vec3(-150, 0, -150), Vec3(150, 40, 150)),
       Box3(Vec3(-150, 50, -150), Vec3(150, 90, 150)) >>,
    << Box3(Vec3(-420, 0, -420), Vec3(420, 90, 420)) >> }

farmLocalBox == Box3(Vec3(-10, 0, -10), Vec3(10, 5, 10))

\* localBBox of the tree template, measured after template.scale.setScalar(3)
localBBox == Box3(Vec3(-400, 0, -400), Vec3(400, 300, 400))

carLocalBox == Box3(Vec3(-8, 0, -8), Vec3(8, 5, 8))

vanLocalBox == Box3(Vec3(-8, 0, -8), Vec3(8, 6, 8))

rockLocalBox == Box3(Vec3(-10, 0, -10), Vec3(10, 10, 10))

fenceLocalBox == Box3(Vec3(-5, 0, -5), Vec3(5, 5, 5))

(***************************************************************************)
(* Values the random draws and the pointer can take                        *)
(***************************************************************************)
\* THREE.MathUtils.randFloatSpread(mapHalfSize * 2) for x and z: a point inside
\* the spawn clearance, one exactly on its rim, the car's spawn point, and two
\* neighbouring points in open ground
SamplePositions ==
  { Vec3(0, 0, 0), Vec3(600, 0, 0), Vec3(800, 0, -600),
    Vec3(-1000, 0, 1000), Vec3(-1000, 0, 1100) }

\* lerp(minScale, maxScale, Math.random() ** 3): a large rock
SampleScales == {9}

\* ground hits of the pointer ray after the snap to the 2 m grid: the origin,
\* a grid point too close to it, one far enough from it, and the car's spawn point
GhostHits ==
  { Vec3(0, 0, 0), Vec3(20, 0, 20), Vec3(40, 0, 0), Vec3(800, 0, -600) }

(***************************************************************************)
(* World build: loadStaticModels and the loaders it awaits                 *)
(***************************************************************************)
push(seq, box) == Append(seq, box)

\* user events are dispatched only while the loader is suspended in an await of
\* a glTF load, or when it has finished
AtAwait ==
  pc \in {"barn", "farm", "trees", "carTemplate", "vanTemplate",
          "rockTemplate", "fenceTemplate", "running"}

OffsetBox(pos, b) ==
  Box3(Vec3(pos.x + b.min.x, pos.y + b.min.y, pos.z + b.min.z),
       Vec3(pos.x + b.max.x, pos.y + b.max.y, pos.z + b.max.z))

RECURSIVE pushAll(_, _, _)
pushAll(colliders, pos, boxes) ==
  IF boxes = << >> THEN colliders
  ELSE pushAll(push(colliders, OffsetBox(pos, Head(boxes))), pos, Tail(boxes))

\* loadStaticBarn: one collider per mesh of the barn, none validated
loadStaticBarn ==
  /\ pc = "barn"
  /\ \E meshes \in barnMeshBoxes :
       staticColliders' = pushAll(staticColliders, Vec3(1100, 0, -900), meshes)
  /\ pc' = "farm"
  /\ UNCHANGED <<loopN, attempt, placed, instStart, placedLog, uiVars, simVars>>

\* loadStaticFarm: one collider for the whole farm, not validated
loadStaticFarm ==
  /\ pc = "farm"
  /\ staticColliders' =
       push(staticColliders, setFromObject(Vec3(500, 0, 300), farmLocalBox, 10))
  /\ pc' = "trees"
  /\ UNCHANGED <<loopN, attempt, placed, instStart, placedLog, uiVars, simVars>>

\* the twelve addForestWall positions, in call order
ForestWallPositions ==
  << Vec3(-mapHalf - localBBox.min.x, 0, mapHalf - localBBox.min.x),
     Vec3(mapHalf - localBBox.max.x, 0, mapHalf - localBBox.min.x),
     Vec3(-mapHalf - localBBox.min.x, 0, 2 * (-mapHalf + localBBox.min.x)),
     Vec3(mapHalf - localBBox.max.x, 0, 2 * (-mapHalf + localBBox.min.x)),
     Vec3(-2 * mapHalf - localBBox.min.x, 0, -mapHalf - localBBox.min.x),
     Vec3(-2 * mapHalf - localBBox.min.x, 0, mapHalf - localBBox.max.x),
     Vec3(2 * mapHalf - localBBox.max.x, 0, -mapHalf - localBBox.min.x),
     Vec3(2 * mapHalf - localBBox.max.x, 0, mapHalf - localBBox.max.x),
     Vec3(-2 * mapHalf, 0, mapHalf - localBBox.min.x),
     Vec3(mapHalf, 0, mapHalf),
     Vec3(mapHalf, 0, -2 * mapHalf),
     Vec3(-2 * mapHalf, 0, -2 * mapHalf) >>

\* addForestWall: clone, move, record a collider with a 0.5 m margin
addForestWall(colliders, pos) ==
  push(colliders, expandByScalar(OffsetBox(pos, localBBox), 5))

RECURSIVE addForestWalls(_, _)
addForestWalls(colliders, positions) ==
  IF positions = << >> THEN colliders
  ELSE addForestWalls(addForestWall(colliders, Head(positions)), Tail(positions))

loadStaticTrees ==
  /\ pc = "trees"
  /\ staticColliders' = addForestWalls(staticColliders, ForestWallPositions)
  /\ pc' = "carTemplate"
  /\ UNCHANGED <<loopN, attempt, placed, instStart, placedLog, uiVars, simVars>>

overlapsSomething_rimAccepted(colliders, pos, box) ==
  LET clearOfPlayer ==
        distanceToSquared(setY(pos, 0), playerSpawnPos) >= reservedRadiusSq
  IN  ~ clearOfPlayer \/ some(colliders, box)

\* the check shared by placeAt and the rock and fence loops: clear of the
\* player's spawn pad and of every collider stored so far
overlapsSomething(colliders, pos, box) ==
  LET clearOfPlayer ==
        distanceToSquared(setY(pos, 0), playerSpawnPos) > reservedRadiusSq
  IN  ~ clearOfPlayer \/ some(colliders, box)

\* placeAt of loadStaticVehicles: the state <<colliders, log>> after the call
placeAt(st, localBox, pos, scale, kind) ==
  LET tmpBox == setFromObject(pos, localBox, scale)
  IN  IF overlapsSomething(st[1], pos, tmpBox)
        THEN st
        ELSE << push(st[1], tmpBox),
                Append(st[2], [idx |-> Len(st[1]) + 1, pos |-> pos, kind |-> kind]) >>

\* loadStaticVehicles awaits the car template ...
loadCarTemplate ==
  /\ pc = "carTemplate"
  /\ pc' = "vanTemplate"
  /\ UNCHANGED <<staticColliders, loopN, attempt, placed, instStart, placedLog, uiVars, simVars>>

\* ... then the van template, and places CAR_SPAWNS and VAN_SPAWNS
loadStaticVehicles ==
  /\ pc = "vanTemplate"
  /\ LET afterCar == placeAt(<<staticColliders, placedLog>>, carLocalBox,
                             Vec3(800, 0, -600), 4, "vehicle")
         afterVan == placeAt(afterCar, vanLocalBox, Vec3(1600, 0, -600), 5, "vehicle")
     IN  /\ staticColliders' = afterVan[1]
         /\ placedLog' = afterVan[2]
  /\ pc' = "rockTemplate"
  /\ UNCHANGED <<loopN, attempt, placed, instStart, uiVars, simVars>>

\* loadStaticRocks resumes with the rock template and enters its loop
loadRockTemplate ==
  /\ pc = "rockTemplate"
  /\ pc' = "rockLoop"
  /\ loopN' = 0
  /\ attempt' = 0
  /\ placed' = FALSE
  /\ instStart' = staticColliders
  /\ UNCHANGED <<staticColliders, placedLog, uiVars, simVars>>

sampleAttempt_pushBeforeCheck(localBox, pos, scale, kind) ==
  LET tmpBox == setFromObject(pos, localBox, scale)
  IN  /\ staticColliders' = push(staticColliders, tmpBox)
      /\ IF ~ overlapsSomething(staticColliders, pos, tmpBox)
            THEN /\ placedLog' = Append(placedLog,
                      [idx |-> Len(staticColliders) + 1, pos |-> pos, kind |-> kind])
                 /\ placed' = TRUE
            ELSE UNCHANGED <<placedLog, placed>>

sampleAttempt_storesScratch(localBox, pos, scale, kind) ==
  LET tmpBox == setFromObject(pos, localBox, scale)
      mine   == { placedLog[k].idx : k \in { n \in 1..Len(placedLog) : placedLog[n].kind = kind } }
      shared == [i \in 1..Len(staticColliders) |->
                   IF i \in mine THEN tmpBox ELSE staticColliders[i]]
  IN  IF ~ overlapsSomething(shared, pos, tmpBox)
        THEN /\ staticColliders' = push(shared, tmpBox)
             /\ placedLog' = Append(placedLog,
                  [idx |-> Len(staticColliders) + 1, pos |-> pos, kind |-> kind])
             /\ placed' = TRUE
        ELSE /\ staticColliders' = shared
             /\ UNCHANGED <<placedLog, placed>>

\* one pass of the inner loop body, for a rock or a fence
sampleAttempt(localBox, pos, scale, kind) ==
  LET tmpBox == setFromObject(pos, localBox, scale)
  IN  IF ~ overlapsSomething(staticColliders, pos, tmpBox)
        THEN /\ staticColliders' = push(staticColliders, tmpBox)
             /\ placedLog' = Append(placedLog,
                  [idx |-> Len(staticColliders) + 1, pos |-> pos, kind |-> kind])
             /\ placed' = TRUE
        ELSE UNCHANGED <<staticColliders, placedLog, placed>>

rockAttempt_ignoresPlaced ==
  /\ pc = "rockLoop"
  /\ loopN < rockCount
  /\ attempt < maxAttempts
  /\ \E pos \in SamplePositions, s \in SampleScales :
       sampleAttempt(rockLocalBox, pos, s, "rock")
  /\ attempt' = attempt + 1
  /\ UNCHANGED <<pc, loopN, instStart, uiVars, simVars>>

\* for (attempt = 0; attempt < maxAttempts && !placed; attempt++) of the rocks
rockAttempt ==
  /\ pc = "rockLoop"
  /\ loopN < rockCount
  /\ attempt < maxAttempts /\ ~ placed
  /\ \E pos \in SamplePositions, s \in SampleScales :
       sampleAttempt(rockLocalBox, pos, s, "rock")
  /\ attempt' = attempt + 1
  /\ UNCHANGED <<pc, loopN, instStart, uiVars, simVars>>

\* the inner loop has ended: n++ and the next rock begins
rockNext ==
  /\ pc = "rockLoop"
  /\ loopN < rockCount
  /\ ~ (attempt < maxAttempts /\ ~ placed)
  /\ loopN' = loopN + 1
  /\ attempt' = 0
  /\ placed' = FALSE
  /\ instStart' = staticColliders
  /\ UNCHANGED <<pc, staticColliders, placedLog, uiVars, simVars>>

\* n = rockCount: loadStaticRocks returns and loadStaticFences starts its load
rockLoopEnd ==
  /\ pc = "rockLoop"
  /\ loopN = rockCount
  /\ pc' = "fenceTemplate"
  /\ UNCHANGED <<staticColliders, loopN, attempt, placed, instStart, placedLog, uiVars, simVars>>

loadFenceTemplate ==
  /\ pc = "fenceTemplate"
  /\ pc' = "fenceLoop"
  /\ loopN' = 0
  /\ attempt' = 0
  /\ placed' = FALSE
  /\ instStart' = staticColliders
  /\ UNCHANGED <<staticColliders, placedLog, uiVars, simVars>>

fenceAttempt ==
  /\ pc = "fenceLoop"
  /\ loopN < fenceCount
  /\ attempt < maxAttempts /\ ~ placed
  /\ \E pos \in SamplePositions :
       sampleAttempt(fenceLocalBox, pos, fenceScale, "fence")
  /\ attempt' = attempt + 1
  /\ UNCHANGED <<pc, loopN, instStart, uiVars, simVars>>

fenceNext ==
  /\ pc = "fenceLoop"
  /\ loopN < fenceCount
  /\ ~ (attempt < maxAttempts /\ ~ placed)
  /\ loopN' = loopN + 1
  /\ attempt' = 0
  /\ placed' = FALSE
  /\ instStart' = staticColliders
  /\ UNCHANGED <<pc, staticColliders, placedLog, uiVars, simVars>>

\* n = fenceCount: loadStaticModels resolves and the then-callback is queued
fenceLoopEnd ==
  /\ pc = "fenceLoop"
  /\ loopN = fenceCount
  /\ pc' = "then"
  /\ UNCHANGED <<staticColliders, loopN, attempt, placed, instStart, placedLog, uiVars, simVars>>

\* the pathfinder and the spawner before the then-callback has made them
NoPathfinder == [made |-> FALSE, baked |-> << >>]

NoSpawner ==
  [made |-> FALSE, pathfinder |-> FALSE, bakes |-> 0,
   currentWave |-> 0, timer |-> 0, paused |-> FALSE]

\* GridPathFinder.addCollider(box): the box is baked into the grid
addCollider(pf, box) == [pf EXCEPT !.baked = Append(@, box)]

\* const padded = box.clone(), and with padding = 0 nothing expands it
padded(box) == Box3(box.min, box.max)

addColliderOf_skipLast(pf, colliders, k) ==
  IF k = Len(colliders) THEN pf ELSE addCollider(pf, padded(colliders[k]))

\* the body of `for (const box of this.staticColliders)`
addColliderOf(pf, colliders, k) == addCollider(pf, padded(colliders[k]))

RECURSIVE bakeEach(_, _, _)
bakeEach(pf, colliders, k) ==
  IF k > Len(colliders) THEN pf
  ELSE bakeEach(addColliderOf(pf, colliders, k), colliders, k + 1)

\* initPathfinding(): a new GridPathFinder with every static collider baked in
initPathfinding(colliders) ==
  bakeEach([made |-> TRUE, baked |-> << >>], colliders, 1)

\* initEnemySpawner(): new EnemySpawner(scene, player, this, this.pathfinder);
\* bakes is a history field: the boxes the pathfinder held at that moment
initEnemySpawner(pf) ==
  [made |-> TRUE, pathfinder |-> pf.made, bakes |-> Len(pf.baked),
   currentWave |-> 1, timer |-> 0, paused |-> FALSE]

\* the then-callback of the constructor: initPathfinding, initEnemySpawner and
\* start(), which calls animate for the first time
thenCallback ==
  /\ pc = "then"
  /\ pathfinder' = initPathfinding(staticColliders)
  /\ enemySpawner' = initEnemySpawner(pathfinder')
  /\ pc' = "running"
  /\ UNCHANGED <<staticColliders, loopN, attempt, placed, instStart, placedLog, uiVars,
                 combatVars, lifeVars, clock>>

(***************************************************************************)
(* Turret drag-and-drop                                                    *)
(***************************************************************************)
\* lastUp before any pointer-up, and again once the next drag has started; after
\* a pointer-up kind is one of "committed", "invalid" (the position failed
\* validation) and "refused" (spendMana returned false), and spendCalled tells
\* whether the listener called player.spendMana
NoUp == [kind |-> "none", spendCalled |-> FALSE]

NoDrag == [on |-> FALSE, ghost |-> Vec3(0, 0, 0), colour |-> "green"]

\* the ghost of a new drag: a fresh mesh at the origin, tinted green
NewDrag == [on |-> TRUE, ghost |-> Vec3(0, 0, 0), colour |-> "green"]

\* the flat box isTurretPlacementValid builds around the proposed centre
turretFootprint(pos) ==
  LET r == TURRET_RADIUS
  IN  Box3(Vec3(pos.x - r, -10, pos.z - r), Vec3(pos.x + r, 30, pos.z + r))

isTurretPlacementValid_noTurretCheck(colliders, ts, pos) ==
  ~ some(colliders, turretFootprint(pos))

isTurretPlacementValid_inclusive(colliders, ts, pos) ==
  LET r == TURRET_RADIUS
  IN  IF some(colliders, turretFootprint(pos)) THEN FALSE
      ELSE ~ \E i \in 1..Len(ts) :
               distanceToSquared(ts[i].pos, pos) <= (r * 2) * (r * 2)

\* isTurretPlacementValid(pos), read against this.staticColliders and this.turrets
isTurretPlacementValid(colliders, ts, pos) ==
  LET r == TURRET_RADIUS
  IN  IF some(colliders, turretFootprint(pos)) THEN FALSE
      ELSE ~ \E i \in 1..Len(ts) :
               distanceToSquared(ts[i].pos, pos) < (r * 2) * (r * 2)

\* Player.spendMana(cost): whether it succeeds, and the mana it leaves
spendMana(m, cost) == m >= cost

manaAfterSpend(m, cost) == IF m >= cost THEN m - cost ELSE m

playerMaxMana == 100

\* Player.regenMana(delta): the mana after a frame that regenerates g
regenMana(m, g) == IF m + g > playerMaxMana THEN playerMaxMana ELSE m + g

\* new Turret(pos.clone(), scene, enemySpawner, bullets)
Turret(pos) == [pos |-> pos, active |-> TRUE]

turretBuilt_bakesItself(pf, pos) ==
  IF pf.made THEN addCollider(pf, turretFootprint(pos)) ELSE pf

\* what the constructor of a Turret does to the pathfinder it can reach through
\* the spawner it is given: nothing, a turret is no obstacle for pathfinding
turretBuilt(pf, pos) == pf

addTurretToken_countDropped(tokens, count) == tokens

\* addTurretToken(count) and addMolotovToken(count): this.tokens += count
addTurretToken(tokens, count) == tokens + count

addMolotovToken(tokens, count) == tokens + count

cancelActiveDrag_keepsDrag(drag) == drag

\* cancelActiveDrag: the turret drag, if any, is dropped
cancelActiveDrag(drag) == IF drag.on THEN NoDrag ELSE drag

onStartTurretDrag_zeroAllowed(drag) ==
  IF turretTokens < 0 THEN drag ELSE NewDrag

\* ui.onStartTurretDrag: refused without tokens, else any drag is replaced
onStartTurretDrag(drag) ==
  IF turretTokens <= 0 THEN drag ELSE NewDrag

\* what ray.intersectPlane yields on a pointer event: no point, or the snapped hit
PointerHits == { << >> } \cup { << h >> : h \in GhostHits }

pointerMoveTurret_dropsInvalid(drag, hit) ==
  IF ~ drag.on THEN drag
  ELSE IF hit = << >> THEN drag
  ELSE IF isTurretPlacementValid(staticColliders, turrets, hit[1])
         THEN [on |-> TRUE, ghost |-> hit[1], colour |-> "green"]
         ELSE NoDrag

\* the pointermove listener of the turret drag
pointerMoveTurret(drag, hit) ==
  IF ~ drag.on THEN drag
  ELSE IF hit = << >> THEN drag
  ELSE [on |-> TRUE, ghost |-> hit[1],
        colour |-> IF isTurretPlacementValid(staticColliders, turrets, hit[1])
                     THEN "green" ELSE "red"]

\* ui.onStartTurretDrag, as the turret button of the UI calls it
startTurretDrag ==
  /\ AtAwait
  /\ Len(turrets) < MaxTurrets
  /\ draggingTurret' = onStartTurretDrag(draggingTurret)
  /\ draggingMolotov' = IF turretTokens <= 0 THEN draggingMolotov ELSE FALSE
  /\ lastUp' = NoUp
  /\ UNCHANGED <<buildVars, turrets, turretTokens, mana, inputVars, molotovTokens, importing,
                 simVars>>

\* keydown Digit1: cancelActiveDrag, onStartTurretDrag, simulatePointerMoveAtMouse
keyDigit1 ==
  /\ AtAwait
  /\ Len(turrets) < MaxTurrets
  /\ \E hit \in PointerHits :
       draggingTurret' =
         pointerMoveTurret(onStartTurretDrag(cancelActiveDrag(draggingTurret)), hit)
  /\ draggingMolotov' = FALSE
  /\ lastUp' = NoUp
  /\ UNCHANGED <<buildVars, turrets, turretTokens, mana, inputVars, molotovTokens, importing,
                 simVars>>

\* event.button of a mouse event: left, right
MouseButtons == {0, 2}

\* mousedown on the container: the left button sets input['MouseLeft'] unless
\* a drag is active; the right button only starts panning the camera
mouseDown ==
  /\ AtAwait
  /\ \E button \in MouseButtons :
       mouseLeft' = IF button = 0 /\ ~ (draggingTurret.on \/ draggingMolotov)
                    THEN TRUE ELSE mouseLeft
  /\ UNCHANGED <<buildVars, turrets, turretTokens, mana, draggingTurret, lastUp, molotovVars,
                 simVars>>

\* mouseup on the container: the left button clears input['MouseLeft']
mouseUp ==
  /\ AtAwait
  /\ \E button \in MouseButtons :
       mouseLeft' = IF button = 0 THEN FALSE ELSE mouseLeft
  /\ UNCHANGED <<buildVars, turrets, turretTokens, mana, draggingTurret, lastUp, molotovVars,
                 simVars>>

\* ui.onStartMolotovDrag on the molotov drag (set or not): refused without
\* tokens, else any drag is replaced by a new molotov drag
onStartMolotovDrag(drag) ==
  IF molotovTokens <= 0 THEN drag ELSE TRUE

\* keydown Digit2: cancelActiveDrag, onStartMolotovDrag, simulatePointerMoveAtMouse
keyDigit2 ==
  /\ AtAwait
  /\ draggingTurret' = cancelActiveDrag(draggingTurret)
  /\ draggingMolotov' = onStartMolotovDrag(FALSE)
  /\ UNCHANGED <<buildVars, turrets, turretTokens, mana, lastUp, inputVars, molotovTokens, importing,
                 simVars>>

\* ui.onStartMolotovDrag, as the molotov button of the UI calls it
startMolotovDrag ==
  /\ AtAwait
  /\ draggingMolotov' = onStartMolotovDrag(draggingMolotov)
  /\ draggingTurret' = IF molotovTokens <= 0 THEN draggingTurret
                       ELSE cancelActiveDrag(draggingTurret)
  /\ UNCHANGED <<buildVars, turrets, turretTokens, mana, lastUp, inputVars, molotovTokens, importing,
                 simVars>>

\* pointerup during a molotov drag, up to the await: the drag is cleaned up,
\* and if spendMana(molotovCost) succeeds the handler is suspended in
\* `await import('./Molotov.js')`
pointerUpMolotov ==
  /\ AtAwait
  /\ draggingMolotov
  /\ draggingMolotov' = FALSE
  /\ IF spendMana(mana, molotovCost)
       THEN /\ mana' = manaAfterSpend(mana, molotovCost)
            /\ importing' = importing + 1
       ELSE UNCHANGED <<mana, importing>>
  /\ UNCHANGED <<buildVars, turrets, turretTokens, draggingTurret, lastUp, molotovTokens,
                 inputVars, simVars>>

\* a suspended handler resumes with the module: new Molotov(...), push, and
\* addMolotovToken(-1)
molotovImported ==
  /\ importing > 0
  /\ importing' = importing - 1
  /\ molotovs' = Append(molotovs, [id |-> Len(molotovs) + 1])
  /\ molotovTokens' = addMolotovToken(molotovTokens, -1)
  /\ UNCHANGED <<buildVars, turrets, turretTokens, mana, draggingTurret, lastUp,
                 draggingMolotov, inputVars, enemies, bullets, trace, pickups, playerHealth,
                 lifeVars, bootVars, clock>>

\* pointermove during a turret drag
pointerMove ==
  /\ AtAwait
  /\ draggingTurret.on
  /\ \E hit \in PointerHits :
       draggingTurret' = pointerMoveTurret(draggingTurret, hit)
  /\ UNCHANGED <<buildVars, turrets, turretTokens, mana, lastUp, molotovVars, inputVars, simVars>>

turretCommit_spendFirst(colliders, ts, m, pos) ==
  LET spent == spendMana(m, turretCost)
      ok    == isTurretPlacementValid(colliders, ts, pos)
  IN  [ok |-> ok, spendCalled |-> TRUE, spent |-> spent, commit |-> spent /\ ok]

\* the decision of the turret pointerup listener:
\*   ok = !isNaN(pos.x) && isTurretPlacementValid(pos);  if (ok && spendMana(cost))
turretCommit(colliders, ts, m, pos) ==
  LET ok    == isTurretPlacementValid(colliders, ts, pos)
      spent == ok /\ spendMana(m, turretCost)
  IN  [ok |-> ok, spendCalled |-> ok, spent |-> spent, commit |-> spent]

\* pointerup during a turret drag: commit or reject, then clean up
pointerUpTurret ==
  /\ AtAwait
  /\ draggingTurret.on
  /\ LET pos == draggingTurret.ghost
         d   == turretCommit(staticColliders, turrets, mana, pos)
     IN  /\ mana' = IF d.spent THEN manaAfterSpend(mana, turretCost) ELSE mana
         /\ turrets' = IF d.commit THEN Append(turrets, Turret(pos)) ELSE turrets
         /\ pathfinder' = IF d.commit THEN turretBuilt(pathfinder, pos) ELSE pathfinder
         /\ turretTokens' = IF d.commit THEN addTurretToken(turretTokens, -1) ELSE turretTokens
         /\ lastUp' = [kind |-> IF d.commit THEN "committed"
                                ELSE IF d.ok THEN "refused" ELSE "invalid",
                        spendCalled |-> d.spendCalled]
  /\ draggingTurret' = NoDrag
  /\ UNCHANGED <<buildVars, molotovVars, inputVars, combatVars, lifeVars, enemySpawner, clock>>

(***************************************************************************)
(* The frame loop: animate() and the knife-hit callback                    *)
(*                                                                         *)
(* Health and damage are counted in 1/100 of a health point, velocities in *)
(* 0.01 m/s, so that damage * 0.5 / mass is the same number in both.       *)
(***************************************************************************)
\* the player's mesh position (the spawn point, 1.5 m above the ground)
playerPosition == Vec3(0, 15, 0)

knifeRange == 100

\* const attackRange = 5, and this.player.takeDamage(10)
attackRange == 50

attackDamage == 1000

\* the health the player starts with
playerMaxHealth == 2000

\* Enemy.radius and Bullet.radius
enemyRadius == 15

bulletRadius == 5

\* the health and the mass a spawned enemy starts with
enemyHealth == 200

enemyMass == 1

\* frames a bullet is meant to live
bulletLifetime == 3

\* mana regenerated per frame
manaPerFrame == 25

\* damage argument of a knife hit
knifeDamage == 100

\* bounds of the model
MaxEnemies == 2

\* calls of animate in a specification that counts them
MaxFrames == 2

MaxBullets == 2

MaxWave == 2

\* positions enemy.update can move an enemy to: in front of the player, in
\* the path of the bullets, and behind the player, within attackRange
EnemySites == { Vec3(0, 0, 50), Vec3(0, 0, -40) }

\* the points a bullet passes, frame by frame, on its way out of the map
BulletTrack ==
  << Vec3(0, 0, 40), Vec3(0, 0, 60), Vec3(0, 0, 80), Vec3(0, 0, 90), Vec3(0, 0, 3000) >>

\* directions the player can face when the knife lands
ForwardChoices == { Vec3(0, 0, 1), Vec3(0, 0, -1) }

\* the knife-hit events of one frame: none, or one with the player's facing
KnifeEvents == { << >> } \cup { << f >> : f \in ForwardChoices }

\* history flags, all FALSE unless the frame did what they name:
\*   deadHit        takeDamage was called on an enemy that had already died
\*   deadProcessed  an enemy or bullet was processed while a dead enemy was
\*                  still in the live collection
\*   multiHit       one bullet damaged more than one enemy
\* what the last frame did: the enemies removeEnemy took out (kills), the
\* bullets spliced after a hit that was not lethal (wounds), whether it called
\* requestAnimationFrame (scheduled) and renderer.render (rendered), and whether
\* it returned before the updates (early);
\* the calls of player.takeDamage (playerHits) and of onPlayerDeath (deathCalls)
\* it made; lethal counts the calls of player.takeDamage that returned true;
\* kills, wounds, playerHits and deathCalls are counted where `tally` is set,
\* the calls of animate (frames) where `clock` is set;
\* and, where `on` is set, the log of the events of the last frame or callback
NoTrace ==
  [deadHit |-> FALSE, deadProcessed |-> FALSE, multiHit |-> FALSE,
   kills |-> 0, wounds |-> 0, scheduled |-> FALSE, rendered |-> FALSE,
   early |-> FALSE, on |-> FALSE, tally |-> FALSE, clock |-> FALSE, frames |-> 0,
   playerHits |-> 0, deathCalls |-> 0, lethal |-> 0,
   log |-> << >>]

\* history: the event e joins the log
note(st, e) ==
  IF st.trace.on THEN [st EXCEPT !.trace.log = Append(@, e)] ELSE st

\* an enemy as the spawner creates it; dead is a history field: takeDamage has
\* returned true for it; id tells enemies apart where a specification numbers
\* them
Enemy(pos) ==
  [pos |-> pos, health |-> enemyHealth, dead |-> FALSE,
   velocity |-> Vec3(0, 0, 0), mass |-> enemyMass, id |-> 0]

\* a bullet as a turret creates it; step indexes BulletTrack, age counts the
\* frames it was updated; damage is << >> when unset
Bullet ==
  [step |-> 1, age |-> 0, mass |-> 1, vsq |-> 100, damage |-> << >>, id |-> 0]

bulletPosition(b) == BulletTrack[b.step]

\* Array.prototype.splice(i, 1)
splice(seq, i) ==
  IF i < 1 \/ i > Len(seq) THEN seq
  ELSE SubSeq(seq, 1, i - 1) \o SubSeq(seq, i + 1, Len(seq))

healthAfter_notFloored(health, amount) == health - amount

\* the health a takeDamage(amount) leaves: floored at zero
healthAfter(health, amount) ==
  IF health - amount < 0 THEN 0 ELSE health - amount

\* Enemy.takeDamage(amount): the enemy afterwards; dead tells what the call
\* returned, whether the health has reached zero
takeDamage(e, amount) ==
  LET h == healthAfter(e.health, amount)
  IN  [e EXCEPT !.health = h, !.dead = (h <= 0)]

\* EnemySpawner.removeEnemy(enemy): the enemy leaves the live collection
removeEnemy(es, j) == splice(es, j)

anyDead(es) == \E k \in 1..Len(es) : es[k].dead

\* history bookkeeping at the start of every loop iteration
noteProcessing(st) ==
  [st EXCEPT !.trace.deadProcessed = @ \/ anyDead(st.enemies)]

removeIfDead_deferred(st, j, enemyDead) == st

\* if (enemyDead) this.enemySpawner.removeEnemy(enemy); the remove event of the
\* log keeps the enemy as it left
removeIfDead(st, j, enemyDead) ==
  IF enemyDead
    THEN note([st EXCEPT !.enemies = removeEnemy(st.enemies, j),
                         !.trace.kills = IF st.trace.tally THEN @ + 1 ELSE @],
              [ev |-> "remove", enemy |-> st.enemies[j]])
    ELSE st

\* const enemyDead = enemy.takeDamage(dmg), with the history of the call
damageEnemy(st, j, dmg) ==
  LET e == st.enemies[j]
  IN  [st EXCEPT !.enemies[j] = takeDamage(e, dmg),
                 !.trace.deadHit = @ \/ e.dead]

(***************************************************************************)
(* player.onKnifeHit(damage)                                               *)
(***************************************************************************)
sub(a, b) == Vec3(a.x - b.x, a.y - b.y, a.z - b.z)

add(a, b) == Vec3(a.x + b.x, a.y + b.y, a.z + b.z)

dot(a, b) == a.x * b.x + a.y * b.y + a.z * b.z

lengthSq(v) == dot(v, v)

\* Vector3.length(), for the vectors of the model, whose lengths are whole
length(v) == CHOOSE n \in 0..3000 : n * n <= lengthSq(v) /\ lengthSq(v) < (n + 1) * (n + 1)

\* distance < knifeRange and forward.dot(toEnemy.normalize()) > 0; normalising
\* divides by a positive length, and leaves the zero vector as it is
knifeReaches(forward, e) ==
  LET toEnemy == sub(e.pos, playerPosition)
  IN  /\ lengthSq(toEnemy) < knifeRange * knifeRange
      /\ dot(forward, toEnemy) > 0

knockbackDelta_alongToEnemy(toEnemy, damage, mass) ==
  LET len == length(toEnemy)
  IN  IF len = 0 THEN Vec3(0, 0, 0)
      ELSE Vec3((toEnemy.x * damage) \div (2 * mass * len),
                (toEnemy.y * damage) \div (2 * mass * len),
                (toEnemy.z * damage) \div (2 * mass * len))

\* knockbackDir = toEnemy.clone(); knockbackDir.y = 0; knockbackDir.normalize();
\* knockbackDir.multiplyScalar(damage * 0.5 / enemy.mass): toEnemy is a unit
\* vector by then, and flattening and normalising it again gives the unit
\* vector of its horizontal part (the zero vector if it has none)
knockbackDelta(toEnemy, damage, mass) ==
  LET knockbackDir == setY(toEnemy, 0)
      len          == length(knockbackDir)
  IN  IF len = 0 THEN Vec3(0, 0, 0)
      ELSE Vec3((knockbackDir.x * damage) \div (2 * mass * len), 0,
                (knockbackDir.z * damage) \div (2 * mass * len))

\* enemy.velocity.add(knockbackDir.multiplyScalar(knockback / enemy.mass))
knockBack(st, k, damage) ==
  LET e       == st.enemies[k]
      toEnemy == sub(e.pos, playerPosition)
  IN  [st EXCEPT !.enemies[k].velocity = add(@, knockbackDelta(toEnemy, damage, e.mass))]

knifeOutcome_both(hit, k, damage, enemyDead) ==
  LET pushed == knockBack(hit, k, damage)
  IN  IF enemyDead THEN removeIfDead(pushed, k, enemyDead) ELSE pushed

\* if (enemyDead) removeEnemy(enemy) else { ... knockback ... }
knifeOutcome(hit, k, damage, enemyDead) ==
  IF enemyDead THEN removeIfDead(hit, k, enemyDead) ELSE knockBack(hit, k, damage)

\* the body of the forEach callback for an enemy the knife reaches; the strike
\* event of the log keeps the enemy as the callback found it
knifeStrike(st, k, damage) ==
  LET hit       == damageEnemy(st, k, damage)
      enemyDead == hit.enemies[k].health <= 0
      struck    == note(hit, [ev |-> "strike", before |-> st.enemies[k],
                              damage |-> damage, lethal |-> enemyDead])
  IN  knifeOutcome(struck, k, damage, enemyDead)

\* enemies.forEach(...): indexes run upwards over the live array, so an index
\* that a removal has emptied is not visited
RECURSIVE knifeEach(_, _, _, _)
knifeEach(st, k, damage, forward) ==
  IF k > Len(st.enemies) THEN st
  ELSE LET s1 == note(noteProcessing(st), [ev |-> "test", id |-> st.enemies[k].id])
           s2 == IF knifeReaches(forward, s1.enemies[k])
                   THEN knifeStrike(s1, k, damage) ELSE s1
       IN  knifeEach(s2, k + 1, damage, forward)

\* this.player.onKnifeHit = (damage) => { ... }; the knife event of the log
\* keeps the enemies the callback found
onKnifeHit(st, damage, forward) ==
  knifeEach(note(st, [ev |-> "knife", forward |-> forward, live |-> st.enemies]),
            1, damage, forward)

\* player.update(delta, input, cameraAngle), as far as it calls onKnifeHit
playerUpdate(st, knife) ==
  IF knife = << >> THEN st ELSE onKnifeHit(st, knifeDamage, knife[1])

(***************************************************************************)
(* this.clock: a THREE.Clock, read against the time in milliseconds        *)
(***************************************************************************)
\* new THREE.Clock(): not running, started by its first getDelta.  now is the
\* time the clock would read; watched tells whether the specification follows
\* time at all (where it does not, the clock is left as it is).  History:
\* diff is the result of the last getDelta; delta is the delta of the last
\* frame, applied tells whether that frame ran the updates, simTime is the sum
\* of the deltas the updates were given, pausedTime the time that passed while
\* paused, resumedAt the time of the last resume (-1: none) and fresh whether
\* no frame has run the updates since
NoClock ==
  [watched |-> FALSE, now |-> 0, running |-> FALSE, autoStart |-> TRUE, oldTime |-> 0,
   elapsedTime |-> 0, diff |-> 0, delta |-> 0, applied |-> FALSE, simTime |-> 0,
   pausedTime |-> 0, resumedAt |-> -1, fresh |-> FALSE]

clockStart_keepsOldTime(c) ==
  IF ~ c.watched THEN c
  ELSE [c EXCEPT !.running = TRUE]

\* Clock.start(): oldTime = now, elapsedTime = 0, running = true
clockStart(c) ==
  IF ~ c.watched THEN c
  ELSE [c EXCEPT !.oldTime = c.now, !.elapsedTime = 0, !.running = TRUE]

\* Clock.getDelta(): starts a clock that may start itself and yields 0; on a
\* running clock yields the time since oldTime and moves oldTime to now; on a
\* stopped clock yields 0
getDelta(c) ==
  IF ~ c.watched THEN c
  ELSE IF c.autoStart /\ ~ c.running THEN [clockStart(c) EXCEPT !.diff = 0]
  ELSE IF c.running
    THEN [c EXCEPT !.diff = c.now - c.oldTime, !.oldTime = c.now,
                   !.elapsedTime = @ + (c.now - c.oldTime)]
    ELSE [c EXCEPT !.diff = 0]

\* Clock.stop(): getElapsedTime() (which calls getDelta), running = false,
\* autoStart = false
clockStop(c) ==
  IF ~ c.watched THEN c
  ELSE [getDelta(c) EXCEPT !.running = FALSE, !.autoStart = FALSE]

\* const delta = this.clock.getDelta() of a frame, c being the clock after the
\* call; updates tells whether the frame goes on to the gameplay updates
frameDelta(c, updates) ==
  IF ~ c.watched THEN c
  ELSE [c EXCEPT !.delta = c.diff, !.applied = updates,
                 !.simTime = IF updates THEN @ + c.diff ELSE @,
                 !.fresh = IF updates THEN FALSE ELSE @]

(***************************************************************************)
(* onPlayerDeath() and togglePause()                                       *)
(***************************************************************************)
\* this.turrets.forEach(t => t.active = a)
setActive(ts, a) == [k \in 1..Len(ts) |-> [ts[k] EXCEPT !.active = a]]

\* this.enemySpawner?.pause?.() and this.enemySpawner?.resume?.()
setSpawnerPaused(sp, p) == IF sp.made THEN [sp EXCEPT !.paused = p] ELSE sp

\* nothing staged: no spotlight in the scene, no game-over timer pending, no
\* game-over panel shown
NoDeathScene == [spots |-> 0, timers |-> 0, panels |-> 0]

onPlayerDeath_unguarded(st) ==
  [st EXCEPT !.isGameOver = TRUE,
             !.spawner = setSpawnerPaused(@, TRUE),
             !.turrets = setActive(@, FALSE),
             !.deathScene.spots = @ + 1,
             !.deathScene.timers = @ + 1,
             !.trace.deathCalls = IF st.trace.tally THEN @ + 1 ELSE @]

\* onPlayerDeath(): if (this.isGameOver) return; this.isGameOver = true; the
\* spawner is paused, the turrets are switched off, a spotlight is added to
\* the scene and the timer of the game-over panel is set
onPlayerDeath(st) ==
  LET called == [st EXCEPT !.trace.deathCalls = IF st.trace.tally THEN @ + 1 ELSE @]
  IN  IF st.isGameOver THEN called
      ELSE note([called EXCEPT !.isGameOver = TRUE,
                               !.spawner = setSpawnerPaused(@, TRUE),
                               !.turrets = setActive(@, FALSE),
                               !.deathScene.spots = @ + 1,
                               !.deathScene.timers = @ + 1],
                [ev |-> "death"])

\* Player.takeDamage(amount): health is floored at zero, the call returns true
\* when it is the one that brings the health to zero, and a player whose health
\* has run out reports it through game.onPlayerDeath()
playerTakeDamage(st, amount) ==
  LET h        == healthAfter(st.playerHealth, amount)
      returned == st.playerHealth > 0 /\ h <= 0
      hurt     == [st EXCEPT !.playerHealth = h,
                             !.trace.playerHits = IF st.trace.tally THEN @ + 1 ELSE @,
                             !.trace.lethal = IF returned THEN @ + 1 ELSE @]
  IN  IF h <= 0 THEN onPlayerDeath(hurt) ELSE hurt

\* the callback of setTimeout(..., 2000) of onPlayerDeath: ui.fadeToBlack, and
\* at the end of the fade ui.showGameOver(wave, timeStr)
gameOverTimer ==
  /\ deathScene.timers > 0
  /\ deathScene' = [deathScene EXCEPT !.timers = @ - 1, !.panels = @ + 1]
  /\ UNCHANGED <<buildVars, uiVars, combatVars, paused, isGameOver, bootVars, clock>>

\* togglePause(): keydown of KeyP
togglePause ==
  /\ paused' = ~ paused
  /\ enemySpawner' = setSpawnerPaused(enemySpawner, paused')
  /\ turrets' = setActive(turrets, ~ paused')
  /\ clock' = IF paused' THEN clockStop(clock)
              ELSE IF ~ clock.watched THEN clock
              ELSE [clockStart(clock) EXCEPT !.resumedAt = clock.now, !.fresh = TRUE]
  /\ UNCHANGED <<buildVars, turretTokens, mana, draggingTurret, lastUp, molotovVars, inputVars,
                 combatVars,
                 isGameOver, deathScene, pathfinder>>

(***************************************************************************)
(* animate(): spawner, enemies, bullets, pickups, turrets, molotovs        *)
(***************************************************************************)
\* enemySpawner.update(delta) while the spawner is not paused: the spawn timer
\* runs (1) until an enemy is created and the timer starts again (0); a timer
\* that has run out over an empty field begins the next wave
spawnerUpdate(st, spawn) ==
  LET noted == note(st, [ev |-> "spawner"])
  IN  IF st.spawner.paused THEN noted
      ELSE IF spawn
        THEN [noted EXCEPT !.enemies = Append(@, Enemy(Vec3(0, 0, 100))),
                           !.spawner.timer = 0]
        ELSE [noted EXCEPT
                !.spawner.timer = 1,
                !.spawner.currentWave =
                   IF st.enemies = << >> /\ st.spawner.timer = 1 /\ @ < MaxWave
                     THEN @ + 1 ELSE @]

\* enemy.update(delta, camera) for enemy k: the update leaves it at site `to`,
\* with the knockback it carried spent
enemyUpdate(st, k, to) ==
  note([st EXCEPT !.enemies[k].pos = to, !.enemies[k].velocity = Vec3(0, 0, 0)],
       [ev |-> "update", kind |-> "enemy", id |-> st.enemies[k].id])

\* distance < attackRange, for an enemy whose attack swing is due (isAttacking,
\* attackAction, and hasDamaged not yet set)
attackLands(e, swings) ==
  /\ swings
  /\ distanceToSquared(e.pos, playerPosition) < attackRange * attackRange

\* for (let enemy of this.enemySpawner.enemies) { enemy.update; attack check }
RECURSIVE enemiesEach(_, _, _, _)
enemiesEach(st, k, moves, swings) ==
  IF k > Len(st.enemies) THEN st
  ELSE LET moved == enemyUpdate(st, k, moves[k])
           s2    == IF attackLands(moved.enemies[k], k \in swings)
                      THEN playerTakeDamage(moved, attackDamage) ELSE moved
       IN  enemiesEach(s2, k + 1, moves, swings)

enemiesUpdate(st, moves, swings) == enemiesEach(st, 1, moves, swings)

\* Bullet.update(delta): the bullet flies on and ages
bulletUpdate(b) ==
  [b EXCEPT !.step = IF b.step < Len(BulletTrack) THEN b.step + 1 ELSE b.step,
            !.age = IF b.age <= bulletLifetime THEN b.age + 1 ELSE b.age]

\* distance < bullet.radius + enemy.radius
collides(b, e) ==
  LET collisionDistance == bulletRadius + enemyRadius
  IN  distanceToSquared(bulletPosition(b), e.pos) < collisionDistance * collisionDistance

bulletDamage_falsyOverride(b) ==
  LET baseDmg == b.mass * b.vsq
  IN  IF b.damage = << >> \/ b.damage = << 0 >> THEN baseDmg ELSE b.damage[1]

\* dmg = bullet.damage ?? 0.5 * mass * |v|^2 * 0.02   (0.5 * 0.02 = 1/100)
bulletDamage(b) ==
  LET energyTimes2 == b.mass * b.vsq
      baseDmg      == energyTimes2
  IN  IF b.damage = << >> THEN baseDmg ELSE b.damage[1]

\* the body of `if (distance < collisionDistance)` up to the splice of the bullet
bulletHit(st, b, i, j) ==
  LET dealt   == note(st, [ev |-> "damage", bullet |-> b, dmg |-> bulletDamage(b),
                           enemy |-> st.enemies[j]])
      hurt    == damageEnemy(dealt, j, bulletDamage(b))
      cleaned == removeIfDead(hurt, j, hurt.enemies[j].health <= 0)
  IN  [cleaned EXCEPT !.bullets = splice(@, i),
                      !.hitsOfBullet = @ + 1,
                      !.trace.multiHit = @ \/ st.hitsOfBullet >= 1,
                      !.trace.wounds = IF hurt.enemies[j].health <= 0 \/ ~ st.trace.tally
                                         THEN @ ELSE @ + 1]

RECURSIVE enemyLoop(_, _, _, _)

afterHit_noBreak(st, b, i, j) == enemyLoop(st, b, i, j - 1)

\* break
afterHit(st, b, i, j) == st

\* for (j = enemies.length - 1; j >= 0; j--) for the bullet b taken from index i
enemyLoop(st, b, i, j) ==
  IF j < 1 THEN st
  ELSE IF j > Len(st.enemies) THEN enemyLoop(st, b, i, j - 1)
  ELSE LET s1 == noteProcessing(st)
       IN  IF collides(b, s1.enemies[j])
             THEN afterHit(bulletHit(s1, b, i, j), b, i, j)
             ELSE enemyLoop(s1, b, i, j - 1)

\* for (i = bullets.length - 1; i >= 0; i--)
RECURSIVE bulletLoop(_, _)
bulletLoop(st, i) ==
  IF i < 1 THEN st
  ELSE IF i > Len(st.bullets) THEN bulletLoop(st, i - 1)
  ELSE LET b  == bulletUpdate(st.bullets[i])
           s1 == note([st EXCEPT !.bullets[i] = b, !.hitsOfBullet = 0],
                      [ev |-> "update", kind |-> "bullet", id |-> b.id])
       IN  bulletLoop(enemyLoop(s1, b, i, Len(s1.enemies)), i - 1)

\* the bullet pass of animate; the pass event of the log keeps the bullets it
\* found
bulletPass(st) ==
  bulletLoop(note(st, [ev |-> "pass", kind |-> "bullet", live |-> st.bullets]),
             Len(st.bullets))

\* the health a collected heart gives back ("+20 HP")
heartHeal == 2000

\* heart.update(delta) returned true: the heart has healed the player and is
\* spliced out of this.pickups
collectPickup(st, i) ==
  [st EXCEPT !.pickups = splice(@, i),
             !.playerHealth = IF @ + heartHeal > playerMaxHealth
                                THEN playerMaxHealth ELSE @ + heartHeal]

\* the body of the pickup loop for index i; collected holds the ids of the
\* hearts whose update reports a collection in this frame
pickupStep(st, i, collected) ==
  LET heart == st.pickups[i]
      s1    == note(st, [ev |-> "update", kind |-> "pickup", id |-> heart.id])
  IN  IF heart.id \in collected THEN collectPickup(s1, i) ELSE s1

RECURSIVE pickupEach(_, _, _)
pickupEach(st, i, collected) ==
  IF i > Len(st.pickups) THEN st
  ELSE pickupEach(pickupStep(st, i, collected), i + 1, collected)

\* for (let i = this.pickups.length - 1; i >= 0; i--)
RECURSIVE pickupLoop(_, _, _)
pickupLoop(st, i, collected) ==
  IF i < 1 THEN st
  ELSE pickupLoop(pickupStep(st, i, collected), i - 1, collected)

pickupPass_forward(st, collected) ==
  pickupEach(note(st, [ev |-> "pass", kind |-> "pickup", live |-> st.pickups]),
             1, collected)

\* the pickup pass of animate
pickupPass(st, collected) ==
  pickupLoop(note(st, [ev |-> "pass", kind |-> "pickup", live |-> st.pickups]),
             Len(st.pickups), collected)

\* Turret.update(delta) of every turret: an active turret with a live enemy in
\* range may add one bullet to this.bullets
turretsUpdate(st, fire) ==
  IF fire
    THEN [st EXCEPT !.bullets = Append(@, Bullet)]
    ELSE st

\* the body of the molotov loop for index i; burnt holds the ids of the
\* molotovs whose update reports that they are spent
molotovStep(st, i, burnt) ==
  LET m  == st.molotovs[i]
      s1 == note(st, [ev |-> "update", kind |-> "molotov", id |-> m.id])
  IN  IF m.id \in burnt THEN [s1 EXCEPT !.molotovs = splice(@, i)] ELSE s1

\* for (let i = this.molotovs.length - 1; i >= 0; i--)
RECURSIVE molotovLoop(_, _, _)
molotovLoop(st, i, burnt) ==
  IF i < 1 THEN st
  ELSE molotovLoop(molotovStep(st, i, burnt), i - 1, burnt)

\* the molotov pass of animate
molotovPass(st, burnt) ==
  molotovLoop(note(st, [ev |-> "pass", kind |-> "molotov", live |-> st.molotovs]),
              Len(st.molotovs), burnt)

\* the inputs of a frame that can change something: a knife hit needs an enemy
\* to reach, the spawner has room below MaxEnemies, an attack lands only from a
\* site within attackRange, a turret that is switched on fires at a live enemy
\* while fewer than MaxBullets are in flight
KnifeInputs ==
  { knife \in KnifeEvents :
      knife # << >> => \E k \in 1..Len(enemies) : knifeReaches(knife[1], enemies[k]) }

SpawnInputs(st) ==
  IF Len(st.enemies) < MaxEnemies /\ ~ st.spawner.paused THEN BOOLEAN ELSE { FALSE }

SwingInputs(moves) ==
  SUBSET { k \in DOMAIN moves :
             distanceToSquared(moves[k], playerPosition) < attackRange * attackRange }

FireInputs(st) ==
  IF /\ \E k \in 1..Len(st.turrets) : st.turrets[k].active
     /\ Len(st.enemies) > 0
     /\ Len(st.bullets) < MaxBullets
    THEN BOOLEAN ELSE { FALSE }

ids(seq) == { seq[k].id : k \in 1..Len(seq) }

\* the collections as a call of animate or of a callback finds them, with the
\* history of the call before cleared
frameStart ==
  [enemies |-> enemies, bullets |-> bullets, pickups |-> pickups, molotovs |-> molotovs,
   turrets |-> turrets, spawner |-> enemySpawner, playerHealth |-> playerHealth,
   isGameOver |-> isGameOver, deathScene |-> deathScene, hitsOfBullet |-> 0,
   trace |-> [trace EXCEPT !.kills = 0, !.wounds = 0, !.scheduled = FALSE,
                           !.rendered = FALSE, !.early = FALSE, !.log = << >>,
                           !.playerHits = 0, !.deathCalls = 0,
                           !.frames = IF trace.clock THEN @ + 1 ELSE @]]

\* requestAnimationFrame(() => this.animate())
scheduleNext(st) == [st EXCEPT !.trace.scheduled = TRUE]

\* this.renderer.render(this.scene, this.camera)
render(st) == [st EXCEPT !.trace.rendered = TRUE]

\* { this.renderer.render(this.scene, this.camera); return; }
returnEarly(st) == [render(st) EXCEPT !.trace.early = TRUE]

skipsUpdates_pauseOnly(p, over) == p

skipsUpdates_gameOverOnly(p, over) == over

\* if (this.paused) { render; return }  if (this.isGameOver) { render; return }
skipsUpdates(p, over) == p \/ over

\* what a call leaves in the variables
leaves(st) ==
  /\ enemies' = st.enemies
  /\ bullets' = st.bullets
  /\ pickups' = st.pickups
  /\ molotovs' = st.molotovs
  /\ turrets' = st.turrets
  /\ enemySpawner' = st.spawner
  /\ playerHealth' = st.playerHealth
  /\ isGameOver' = st.isGameOver
  /\ deathScene' = st.deathScene
  /\ trace' = st.trace

\* animate(): one frame; s1 .. s7 are the collections after the player's update,
\* the spawner, the enemy loop, the bullet pass, the pickup pass, the turrets
\* and the molotov pass
animate ==
  /\ pc = "running"
  /\ trace.frames < MaxFrames
  /\ clock' = frameDelta(getDelta(clock), ~ skipsUpdates(paused, isGameOver))
  /\ IF skipsUpdates(paused, isGameOver)
       THEN /\ leaves(returnEarly(scheduleNext(frameStart)))
            /\ mana' = mana
       ELSE /\ \E knife \in KnifeInputs :
               \E s1 \in { playerUpdate(scheduleNext(frameStart), knife) } :
               \E spawn \in SpawnInputs(s1) : \E s2 \in { spawnerUpdate(s1, spawn) } :
               \E moves \in [1..Len(s2.enemies) -> EnemySites] :
               \E swings \in SwingInputs(moves) :
               \E s4 \in { bulletPass(enemiesUpdate(s2, moves, swings)) } :
               \E collected \in SUBSET ids(s4.pickups) :
               \E s5 \in { pickupPass(s4, collected) } :
               \E fire \in FireInputs(s5) : \E s6 \in { turretsUpdate(s5, fire) } :
               \E burnt \in SUBSET ids(s6.molotovs) :
                 leaves(render(molotovPass(s6, burnt)))
            /\ mana' = regenMana(mana, manaPerFrame)
  /\ UNCHANGED <<buildVars, turretTokens, draggingTurret, lastUp, molotovVars, inputVars, paused,
                 pathfinder>>

(***************************************************************************)
(* Spec: from the end of the constructor, through the world build, with    *)
(* the turret drag-and-drop events that can arrive meanwhile and after     *)
(***************************************************************************)
Init ==
  /\ pc = "barn"
  /\ staticColliders = << >>
  /\ loopN = 0
  /\ attempt = 0
  /\ placed = FALSE
  /\ instStart = << >>
  /\ placedLog = << >>
  /\ turrets = << >>
  /\ turretTokens = initialTurretTokens
  /\ mana = playerMaxMana
  /\ draggingTurret = NoDrag
  /\ lastUp = NoUp
  /\ molotovTokens = initialMolotovTokens
  /\ draggingMolotov = FALSE
  /\ importing = 0
  /\ mouseLeft = FALSE
  /\ clock = NoClock
  /\ enemies = << >>
  /\ bullets = << >>
  /\ trace = NoTrace
  /\ pickups = << >>
  /\ molotovs = << >>
  /\ playerHealth = playerMaxHealth
  /\ paused = FALSE
  /\ isGameOver = FALSE
  /\ deathScene = NoDeathScene
  /\ pathfinder = NoPathfinder
  /\ enemySpawner = NoSpawner

Next ==
  \/ loadStaticBarn
  \/ loadStaticFarm
  \/ loadStaticTrees
  \/ loadCarTemplate
  \/ loadStaticVehicles
  \/ loadRockTemplate
  \/ rockAttempt
  \/ rockNext
  \/ rockLoopEnd
  \/ loadFenceTemplate
  \/ fenceAttempt
  \/ fenceNext
  \/ fenceLoopEnd
  \/ thenCallback
  \/ startTurretDrag
  \/ keyDigit1
  \/ keyDigit2
  \/ pointerMove
  \/ pointerUpTurret

Spec == Init /\ [][Next]_vars

(***************************************************************************)
(* SpecBuild: the world build alone, when no input arrives while it runs   *)
(***************************************************************************)
NextBuild ==
  \/ loadStaticBarn
  \/ loadStaticFarm
  \/ loadStaticTrees
  \/ loadCarTemplate
  \/ loadStaticVehicles
  \/ loadRockTemplate
  \/ rockAttempt
  \/ rockNext
  \/ rockLoopEnd
  \/ loadFenceTemplate
  \/ fenceAttempt
  \/ fenceNext
  \/ fenceLoopEnd
  \/ thenCallback

SpecBuild == Init /\ [][NextBuild]_vars

(***************************************************************************)
(* SpecCombat: the frames of a built world with one turret placed          *)
(***************************************************************************)
\* a world loadStaticModels can leave: hall-and-roof barn, farm, forest walls,
\* both vehicles, and every rock and fence skipped
BuiltWorld ==
  LET barn == pushAll(<< >>, Vec3(1100, 0, -900),
                      CHOOSE m \in barnMeshBoxes : Len(m) = 2)
      farm == push(barn, setFromObject(Vec3(500, 0, 300), farmLocalBox, 10))
      wood == addForestWalls(farm, ForestWallPositions)
      car  == placeAt(<<wood, << >> >>, carLocalBox, Vec3(800, 0, -600), 4, "vehicle")
  IN  placeAt(car, vanLocalBox, Vec3(1600, 0, -600), 5, "vehicle")

InitCombat ==
  /\ pc = "running"
  /\ staticColliders = BuiltWorld[1]
  /\ loopN = fenceCount
  /\ attempt = maxAttempts
  /\ placed = FALSE
  /\ instStart = BuiltWorld[1]
  /\ placedLog = BuiltWorld[2]
  /\ turrets = << Turret(Vec3(0, 0, 40)) >>
  /\ turretTokens = initialTurretTokens - 1
  /\ mana = playerMaxMana - turretCost
  /\ draggingTurret = NoDrag
  /\ lastUp = [kind |-> "committed", spendCalled |-> TRUE]
  /\ molotovTokens = initialMolotovTokens
  /\ draggingMolotov = FALSE
  /\ importing = 0
  /\ mouseLeft = FALSE
  /\ clock = NoClock
  /\ enemies = << >>
  /\ bullets = << >>
  /\ trace = [NoTrace EXCEPT !.tally = TRUE]
  /\ pickups = << >>
  /\ molotovs = << >>
  /\ playerHealth = attackDamage
  /\ paused = FALSE
  /\ isGameOver = FALSE
  /\ deathScene = NoDeathScene
  /\ pathfinder = initPathfinding(staticColliders)
  /\ enemySpawner = [initEnemySpawner(pathfinder) EXCEPT !.currentWave = MaxWave]

NextCombat ==
  \/ animate
  \/ gameOverTimer

SpecCombat == InitCombat /\ [][NextCombat]_vars

(***************************************************************************)
(* SpecLife: frames and the pause key, with the player one hit from death, *)
(* in a world with a turret and in one with a heart and a molotov          *)
(***************************************************************************)
\* a heart / a molotov, told apart by id
Item(id) == [id |-> id]

InitLife ==
  /\ pc = "running"
  /\ staticColliders = BuiltWorld[1]
  /\ loopN = fenceCount
  /\ attempt = maxAttempts
  /\ placed = FALSE
  /\ instStart = BuiltWorld[1]
  /\ placedLog = BuiltWorld[2]
  /\ draggingTurret = NoDrag
  /\ lastUp = NoUp
  /\ molotovTokens = initialMolotovTokens
  /\ draggingMolotov = FALSE
  /\ importing = 0
  /\ mouseLeft = FALSE
  /\ clock = NoClock
  /\ enemies = << >>
  /\ bullets = << >>
  /\ trace = NoTrace
  /\ \/ /\ turrets = << Turret(Vec3(0, 0, 40)) >>
        /\ pickups = << >>
        /\ molotovs = << >>
     \/ /\ turrets = << >>
        /\ pickups = << Item(1) >>
        /\ molotovs = << Item(1) >>
  /\ turretTokens = initialTurretTokens - Len(turrets)
  /\ mana = playerMaxMana - turretCost * Len(turrets)
  /\ playerHealth = attackDamage
  /\ paused = FALSE
  /\ isGameOver = FALSE
  /\ deathScene = NoDeathScene
  /\ pathfinder = initPathfinding(staticColliders)
  /\ enemySpawner = [initEnemySpawner(pathfinder) EXCEPT !.currentWave = MaxWave - 1]

NextLife ==
  \/ animate
  \/ togglePause

SpecLife == InitLife /\ [][NextLife]_vars

(***************************************************************************)
(* SpecPlay: a world whose build has just ended: the then-callback, then   *)
(* the frames with the pause key and the turret drag events between them   *)
(***************************************************************************)
InitPlay ==
  /\ pc = "then"
  /\ staticColliders = BuiltWorld[1]
  /\ loopN = fenceCount
  /\ attempt = maxAttempts
  /\ placed = FALSE
  /\ instStart = BuiltWorld[1]
  /\ placedLog = BuiltWorld[2]
  /\ turrets = << >>
  /\ turretTokens = initialTurretTokens
  /\ mana = playerMaxMana
  /\ draggingTurret = NoDrag
  /\ lastUp = NoUp
  /\ molotovTokens = initialMolotovTokens
  /\ draggingMolotov = FALSE
  /\ importing = 0
  /\ mouseLeft = FALSE
  /\ clock = NoClock
  /\ enemies = << >>
  /\ bullets = << >>
  /\ trace = [NoTrace EXCEPT !.clock = TRUE]
  /\ pickups = << >>
  /\ molotovs = << >>
  /\ playerHealth = attackDamage
  /\ paused = FALSE
  /\ isGameOver = FALSE
  /\ deathScene = NoDeathScene
  /\ pathfinder = NoPathfinder
  /\ enemySpawner = NoSpawner

NextPlay ==
  \/ thenCallback
  \/ animate
  \/ togglePause
  \/ startTurretDrag
  \/ keyDigit1
  \/ keyDigit2
  \/ pointerMove
  \/ pointerUpTurret

SpecPlay == InitPlay /\ [][NextPlay]_vars

(***************************************************************************)
(* SpecOrder: the frames of SpecCombat with the log of each frame kept     *)
(***************************************************************************)
InitOrder ==
  /\ pc = "running"
  /\ staticColliders = BuiltWorld[1]
  /\ loopN = fenceCount
  /\ attempt = maxAttempts
  /\ placed = FALSE
  /\ instStart = BuiltWorld[1]
  /\ placedLog = BuiltWorld[2]
  /\ turrets = << Turret(Vec3(0, 0, 40)) >>
  /\ turretTokens = initialTurretTokens - 1
  /\ mana = playerMaxMana - turretCost
  /\ draggingTurret = NoDrag
  /\ lastUp = [kind |-> "committed", spendCalled |-> TRUE]
  /\ molotovTokens = initialMolotovTokens
  /\ draggingMolotov = FALSE
  /\ importing = 0
  /\ mouseLeft = FALSE
  /\ clock = NoClock
  /\ enemies = << >>
  /\ bullets = << >>
  /\ trace = [NoTrace EXCEPT !.on = TRUE]
  /\ pickups = << >>
  /\ molotovs = << >>
  /\ playerHealth = playerMaxHealth
  /\ paused = FALSE
  /\ isGameOver = FALSE
  /\ deathScene = NoDeathScene
  /\ pathfinder = initPathfinding(staticColliders)
  /\ enemySpawner = [initEnemySpawner(pathfinder) EXCEPT !.currentWave = MaxWave]

NextOrder == animate

SpecOrder == InitOrder /\ [][NextOrder]_vars

(***************************************************************************)
(* SpecPass: the knife callback and the passes of animate, each over       *)
(* prepared collections, with the log of the last one kept                 *)
(***************************************************************************)
MaxItems == 3

numbered(seq) == [k \in 1..Len(seq) |-> [seq[k] EXCEPT !.id = k]]

SeqsUpTo(S, n) == UNION { [1..m -> S] : m \in 0..n }

\* enemies in front of the player (one of them one knife hit from death, one
\* heavy and off the axis), at the rim of the knife's range and just inside
\* it, level with the player's side, and behind the player
EnemyKinds ==
  { [Enemy(Vec3(0, 0, 50)) EXCEPT !.health = knifeDamage],
    [Enemy(Vec3(30, 0, 40)) EXCEPT !.mass = 2],
    Enemy(Vec3(0, 15, 100)),
    Enemy(Vec3(0, 15, 99)),
    Enemy(Vec3(50, 0, 0)),
    Enemy(Vec3(0, 0, -40)) }

\* bullets about to fly through (0, 0, 60): as a turret makes them, with a
\* damage override of 0 and of 150, and heavy and fast
BulletKinds ==
  { Bullet,
    [Bullet EXCEPT !.damage = << 0 >>],
    [Bullet EXCEPT !.damage = << 150 >>, !.mass = 2, !.vsq = 400],
    [Bullet EXCEPT !.mass = 2, !.vsq = 400] }

\* the enemies the bullets of SpecPass meet
PassTargets ==
  { << >>, << Enemy(Vec3(0, 0, 50)) >>,
    << [Enemy(Vec3(0, 0, 50)) EXCEPT !.health = knifeDamage], Enemy(Vec3(0, 0, 50)) >> }

InitPass ==
  /\ pc = "running"
  /\ staticColliders = BuiltWorld[1]
  /\ loopN = fenceCount
  /\ attempt = maxAttempts
  /\ placed = FALSE
  /\ instStart = BuiltWorld[1]
  /\ placedLog = BuiltWorld[2]
  /\ turrets = << >>
  /\ turretTokens = initialTurretTokens
  /\ mana = playerMaxMana
  /\ draggingTurret = NoDrag
  /\ lastUp = NoUp
  /\ molotovTokens = initialMolotovTokens
  /\ draggingMolotov = FALSE
  /\ importing = 0
  /\ mouseLeft = FALSE
  /\ clock = NoClock
  /\ trace = [NoTrace EXCEPT !.on = TRUE]
  /\ playerHealth = playerMaxHealth
  /\ paused = FALSE
  /\ isGameOver = FALSE
  /\ deathScene = NoDeathScene
  /\ pathfinder = initPathfinding(staticColliders)
  /\ enemySpawner = initEnemySpawner(pathfinder)
  /\ \/ /\ enemies \in { numbered(s) : s \in SeqsUpTo(EnemyKinds, MaxEnemies) }
        /\ bullets = << >>
        /\ pickups = << >>
        /\ molotovs = << >>
     \/ /\ enemies \in { numbered(s) : s \in PassTargets }
        /\ bullets \in { numbered(s) : s \in SeqsUpTo(BulletKinds, MaxBullets) }
        /\ pickups = << >>
        /\ molotovs = << >>
     \/ /\ enemies = << >>
        /\ bullets = << >>
        /\ \E n \in 0..MaxItems : pickups = [k \in 1..n |-> Item(k)]
        /\ \E n \in 0..MaxItems : molotovs = [k \in 1..n |-> Item(k)]

\* the knife callback, called with the player facing forward
knifeHit ==
  /\ enemies # << >>
  /\ \E forward \in ForwardChoices :
       leaves(onKnifeHit(frameStart, knifeDamage, forward))
  /\ UNCHANGED <<buildVars, turretTokens, mana, draggingTurret, lastUp, molotovVars, inputVars, paused,
                 pathfinder, clock>>

\* the bullet pass
bulletsPass ==
  /\ bullets # << >>
  /\ leaves(bulletPass(frameStart))
  /\ UNCHANGED <<buildVars, turretTokens, mana, draggingTurret, lastUp, molotovVars, inputVars, paused,
                 pathfinder, clock>>

\* the pickup pass
pickupsPass ==
  /\ pickups # << >>
  /\ \E collected \in SUBSET ids(pickups) : leaves(pickupPass(frameStart, collected))
  /\ UNCHANGED <<buildVars, turretTokens, mana, draggingTurret, lastUp, molotovVars, inputVars, paused,
                 pathfinder, clock>>

\* the molotov pass
molotovsPass ==
  /\ molotovs # << >>
  /\ \E burnt \in SUBSET ids(molotovs) : leaves(molotovPass(frameStart, burnt))
  /\ UNCHANGED <<buildVars, turretTokens, mana, draggingTurret, lastUp, molotovVars, inputVars, paused,
                 pathfinder, clock>>

NextPass ==
  \/ knifeHit
  \/ bulletsPass
  \/ pickupsPass
  \/ molotovsPass

SpecPass == InitPass /\ [][NextPass]_vars

(***************************************************************************)
(* SpecAttack: the attack check of the enemy loop, frame after frame, with *)
(* the attack state of each enemy as its update leaves it                  *)
(***************************************************************************)
\* attackAction.time as a frame can find it; a later frame finds a smaller
\* value when the animation has looped
AttackTimes == 0..2

\* an enemy with the fields the attack check keeps on it; lastAttackCycleTime
\* starts undefined, and no time compares below undefined (here: below 0).
\* History: cycleHits counts the hits on the player since the attack animation
\* last looped or the enemy was last out of the attack state, farHit tells
\* that a hit was applied from attackRange or farther
Fighter(pos) ==
  Enemy(pos) @@ [hasDamaged |-> FALSE, lastAttackCycleTime |-> 0,
                 cycleHits |-> 0, farHit |-> FALSE]

attackCheck_flagNotSet(e, attacking, time) ==
  LET looped == attacking /\ time < e.lastAttackCycleTime
      flag   == IF attacking /\ ~ looped THEN e.hasDamaged ELSE FALSE
      near   == distanceToSquared(e.pos, playerPosition) < attackRange * attackRange
      hit    == attacking /\ near /\ ~ flag
  IN  [enemy |-> [e EXCEPT
                    !.hasDamaged = flag,
                    !.lastAttackCycleTime = IF attacking THEN time ELSE @,
                    !.cycleHits = (IF attacking /\ ~ looped THEN @ ELSE 0)
                                  + (IF hit THEN 1 ELSE 0),
                    !.farHit = @ \/ (hit /\ ~ near)],
       hit |-> hit]

\* the attack check of one enemy (the if / else after enemy.update):
\*   attacking  enemy.isAttacking && enemy.attackAction
\*   time       enemy.attackAction.time
\* yields the enemy afterwards and whether player.takeDamage(10) was called
attackCheck(e, attacking, time) ==
  LET looped == attacking /\ time < e.lastAttackCycleTime
      flag   == IF attacking /\ ~ looped THEN e.hasDamaged ELSE FALSE
      near   == distanceToSquared(e.pos, playerPosition) < attackRange * attackRange
      hit    == attacking /\ near /\ ~ flag
  IN  [enemy |-> [e EXCEPT
                    !.hasDamaged = IF attacking THEN flag \/ hit ELSE FALSE,
                    !.lastAttackCycleTime = IF attacking THEN time ELSE @,
                    !.cycleHits = (IF attacking /\ ~ looped THEN @ ELSE 0)
                                  + (IF hit THEN 1 ELSE 0),
                    !.farHit = @ \/ (hit /\ ~ near)],
       hit |-> hit]

\* for (let enemy of this.enemySpawner.enemies) { enemy.update; attack check },
\* with the attack state of every enemy given
RECURSIVE fightersEach(_, _, _, _, _)
fightersEach(st, k, moves, attacking, times) ==
  IF k > Len(st.enemies) THEN st
  ELSE LET moved == enemyUpdate(st, k, moves[k])
           c     == attackCheck(moved.enemies[k], k \in attacking, times[k])
           s2    == [moved EXCEPT !.enemies[k] = c.enemy]
           s3    == IF c.hit THEN playerTakeDamage(s2, attackDamage) ELSE s2
       IN  fightersEach(s3, k + 1, moves, attacking, times)

\* the enemy loop of one frame of a game that is neither paused nor over
enemiesAttack ==
  /\ ~ skipsUpdates(paused, isGameOver)
  /\ enemies # << >>
  /\ \E moves \in [1..Len(enemies) -> EnemySites] :
     \E attacking \in SUBSET (1..Len(enemies)) :
     \E times \in [1..Len(enemies) -> AttackTimes] :
       leaves(fightersEach(frameStart, 1, moves, attacking, times))
  /\ UNCHANGED <<buildVars, turretTokens, mana, draggingTurret, lastUp, molotovVars, inputVars, paused,
                 pathfinder, clock>>

InitAttack ==
  /\ pc = "running"
  /\ staticColliders = BuiltWorld[1]
  /\ loopN = fenceCount
  /\ attempt = maxAttempts
  /\ placed = FALSE
  /\ instStart = BuiltWorld[1]
  /\ placedLog = BuiltWorld[2]
  /\ turrets = << >>
  /\ turretTokens = initialTurretTokens
  /\ mana = playerMaxMana
  /\ draggingTurret = NoDrag
  /\ lastUp = NoUp
  /\ molotovTokens = initialMolotovTokens
  /\ draggingMolotov = FALSE
  /\ importing = 0
  /\ mouseLeft = FALSE
  /\ clock = NoClock
  /\ enemies \in { << Fighter(Vec3(0, 0, 100)) >>,
                   << Fighter(Vec3(0, 0, 100)), Fighter(Vec3(0, 0, 100)) >> }
  /\ bullets = << >>
  /\ trace = NoTrace
  /\ pickups = << >>
  /\ molotovs = << >>
  /\ playerHealth = playerMaxHealth
  /\ paused = FALSE
  /\ isGameOver = FALSE
  /\ deathScene = NoDeathScene
  /\ pathfinder = initPathfinding(staticColliders)
  /\ enemySpawner = initEnemySpawner(pathfinder)

NextAttack == enemiesAttack

SpecAttack == InitAttack /\ [][NextAttack]_vars

(***************************************************************************)
(* SpecTokens: the turret and molotov drag events and the mouse buttons of *)
(* a built world late in a session, when few tokens are left; an `await    *)
(* import` of the molotov pointer-up resumes at any later moment           *)
(***************************************************************************)
MaxTokens == 2

InitTokens ==
  /\ pc = "running"
  /\ staticColliders = BuiltWorld[1]
  /\ loopN = fenceCount
  /\ attempt = maxAttempts
  /\ placed = FALSE
  /\ instStart = BuiltWorld[1]
  /\ placedLog = BuiltWorld[2]
  /\ turrets = << >>
  /\ turretTokens \in 0..MaxTokens
  /\ mana = playerMaxMana
  /\ draggingTurret = NoDrag
  /\ lastUp = NoUp
  /\ molotovTokens \in 0..MaxTokens
  /\ draggingMolotov = FALSE
  /\ importing = 0
  /\ mouseLeft = FALSE
  /\ clock = NoClock
  /\ enemies = << >>
  /\ bullets = << >>
  /\ trace = NoTrace
  /\ pickups = << >>
  /\ molotovs = << >>
  /\ playerHealth = playerMaxHealth
  /\ paused = FALSE
  /\ isGameOver = FALSE
  /\ deathScene = NoDeathScene
  /\ pathfinder = initPathfinding(staticColliders)
  /\ enemySpawner = initEnemySpawner(pathfinder)

NextTokens ==
  \/ startTurretDrag
  \/ keyDigit1
  \/ pointerMove
  \/ pointerUpTurret
  \/ startMolotovDrag
  \/ keyDigit2
  \/ pointerUpMolotov
  \/ molotovImported
  \/ mouseDown
  \/ mouseUp

SpecTokens == InitTokens /\ [][NextTokens]_vars

(***************************************************************************)
(* SpecClock: the frames and the pause key of a built world with the time  *)
(* passing between them                                                    *)
(***************************************************************************)
MaxTime == 3

\* time passes between two events, one millisecond at a step
timePasses ==
  /\ clock.watched
  /\ clock.now < MaxTime
  /\ clock' = [clock EXCEPT !.now = @ + 1,
                            !.pausedTime = IF paused THEN @ + 1 ELSE @]
  /\ UNCHANGED <<buildVars, uiVars, combatVars, lifeVars, bootVars>>

InitClock ==
  /\ pc = "running"
  /\ staticColliders = BuiltWorld[1]
  /\ loopN = fenceCount
  /\ attempt = maxAttempts
  /\ placed = FALSE
  /\ instStart = BuiltWorld[1]
  /\ placedLog = BuiltWorld[2]
  /\ turrets = << >>
  /\ turretTokens = initialTurretTokens
  /\ mana = playerMaxMana
  /\ draggingTurret = NoDrag
  /\ lastUp = NoUp
  /\ molotovTokens = initialMolotovTokens
  /\ draggingMolotov = FALSE
  /\ importing = 0
  /\ mouseLeft = FALSE
  /\ clock = [NoClock EXCEPT !.watched = TRUE]
  /\ enemies = << >>
  /\ bullets = << >>
  /\ trace = [NoTrace EXCEPT !.clock = TRUE]
  /\ pickups = << >>
  /\ molotovs = << >>
  /\ playerHealth = playerMaxHealth
  /\ paused = FALSE
  /\ isGameOver = FALSE
  /\ deathScene = NoDeathScene
  /\ pathfinder = initPathfinding(staticColliders)
  /\ enemySpawner = [initEnemySpawner(pathfinder) EXCEPT !.currentWave = MaxWave - 1]

NextClock ==
  \/ animate
  \/ togglePause
  \/ timePasses

SpecClock == InitClock /\ [][NextClock]_vars

(***************************************************************************)
(* SpecValid: isTurretPlacementValid as a function of its inputs           *)
(***************************************************************************)
\* a wall, a lid resting exactly on top of the footprint's height, and a roof
\* lying above it
ProbeWall == Box3(Vec3(100, 0, -50), Vec3(200, 40, 50))

ProbeLid == Box3(Vec3(-50, 30, -50), Vec3(50, 90, 50))

ProbeRoof == Box3(Vec3(-50, 31, -50), Vec3(50, 90, 50))

ProbeWorlds == { << >>, << ProbeWall >>, << ProbeRoof >>, << ProbeWall, ProbeLid >>,
                 << ProbeRoof, ProbeWall >> }

ProbeTurrets ==
  { << >>, << Turret(Vec3(0, 0, 0)) >>, << Turret(Vec3(0, 0, 0)), Turret(Vec3(64, 0, 0)) >>,
    << Turret(Vec3(60, 0, -40)) >> }

\* proposed centres: on and next to the 2 r ring of a turret, and on and next
\* to the line where the footprint meets the wall
ProbePositions ==
  { Vec3(0, 0, 0), Vec3(32, 0, 0), Vec3(31, 0, 0), Vec3(20, 0, 20), Vec3(0, 0, 32),
    Vec3(83, 0, 0), Vec3(84, 0, 0), Vec3(150, 0, 0), Vec3(84, 0, 66), Vec3(84, 0, 67) }

InitValid ==
  /\ pc = "running"
  /\ staticColliders \in ProbeWorlds
  /\ loopN = fenceCount
  /\ attempt = maxAttempts
  /\ placed = FALSE
  /\ instStart = staticColliders
  /\ placedLog = << >>
  /\ turrets \in ProbeTurrets
  /\ turretTokens = initialTurretTokens - Len(turrets)
  /\ mana = playerMaxMana
  /\ draggingTurret = NoDrag
  /\ lastUp = NoUp
  /\ molotovTokens = initialMolotovTokens
  /\ draggingMolotov = FALSE
  /\ importing = 0
  /\ mouseLeft = FALSE
  /\ clock = NoClock
  /\ enemies = << >>
  /\ bullets = << >>
  /\ trace = NoTrace
  /\ pickups = << >>
  /\ molotovs = << >>
  /\ playerHealth = playerMaxHealth
  /\ paused = FALSE
  /\ isGameOver = FALSE
  /\ deathScene = NoDeathScene
  /\ pathfinder = initPathfinding(staticColliders)
  /\ enemySpawner = initEnemySpawner(pathfinder)

\* const ok = this.isTurretPlacementValid(hit), shown as the ghost's colour
validateProbe ==
  /\ ~ draggingTurret.on
  /\ \E pos \in ProbePositions :
       draggingTurret' =
         [on |-> TRUE, ghost |-> pos,
          colour |-> IF isTurretPlacementValid(staticColliders, turrets, pos)
                       THEN "green" ELSE "red"]
  /\ UNCHANGED <<buildVars, turrets, turretTokens, mana, lastUp, molotovVars, inputVars, simVars>>

NextValid == validateProbe

SpecValid == InitValid /\ [][NextValid]_vars

(***************************************************************************)
(* Properties                                                              *)
(***************************************************************************)
BuildLoops == {"rockLoop", "fenceLoop"}

LogOfKind(kind) == { k \in 1..Len(placedLog) : placedLog[k].kind = kind }

\* C1: every instance committed by validated placement (vehicle, rock, fence)
\* has a stored box that intersects no other box of staticColliders, and its
\* position lies strictly outside the player clearance radius; this holds
\* after the world build, and at every moment of it
C1_PlacedClearOfEverything ==
  \A k \in 1..Len(placedLog) :
    LET p == placedLog[k]
    IN  /\ p.idx \in 1..Len(staticColliders)
        /\ \A j \in 1..Len(staticColliders) :
             j # p.idx => ~ intersectsBox(staticColliders[p.idx], staticColliders[j])
        /\ distanceToSquared(setY(p.pos, 0), playerSpawnPos) > reservedRadiusSq

\* the build is over with two vehicles and a rock placed
C1_Witness ==
  /\ pc = "running"
  /\ Cardinality(LogOfKind("vehicle")) = 2
  /\ LogOfKind("rock") # {}

\* C2: any two distinct turrets of the turrets collection are at least
\* 2 * TURRET_RADIUS apart, whatever drag starts, moves, pointer-ups and
\* cancels have happened
C2_TurretsApart ==
  \A i, j \in 1..Len(turrets) :
    i # j => distanceToSquared(turrets[i].pos, turrets[j].pos)
               >= (2 * TURRET_RADIUS) * (2 * TURRET_RADIUS)

\* two turrets stand, and a third is being dragged over a blocked spot
C2_Witness ==
  /\ Len(turrets) = 2
  /\ draggingTurret.on
  /\ draggingTurret.colour = "red"

\* C3: in every reachable state, also while loadStaticModels is still
\* running, the footprint box of every turret intersects no box of
\* staticColliders
C3_TurretsClearOfColliders ==
  \A i \in 1..Len(turrets) : ~ some(staticColliders, turretFootprint(turrets[i].pos))

Max(a, b) == IF a >= b THEN a ELSE b

Min(a, b) == IF a <= b THEN a ELSE b

\* the box and the footprint have a point in common
SharesPoint(box, pos) ==
  /\ Max(box.min.x, pos.x - TURRET_RADIUS) <= Min(box.max.x, pos.x + TURRET_RADIUS)
  /\ Max(box.min.z, pos.z - TURRET_RADIUS) <= Min(box.max.z, pos.z + TURRET_RADIUS)
  /\ Max(box.min.y, -10) <= Min(box.max.y, 30)

\* C4: isTurretPlacementValid(pos) is true exactly when no box of
\* staticColliders meets the square footprint of half-width TURRET_RADIUS
\* around pos and every turret is at least 2 * TURRET_RADIUS away from pos
\* (a turret exactly that far away does not block)
C4_ValidIffFree ==
  draggingTurret.on =>
    ( draggingTurret.colour = "green"
      <=> /\ \A k \in 1..Len(staticColliders) :
               ~ SharesPoint(staticColliders[k], draggingTurret.ghost)
          /\ \A i \in 1..Len(turrets) :
               distanceToSquared(turrets[i].pos, draggingTurret.ghost)
                 >= (2 * TURRET_RADIUS) * (2 * TURRET_RADIUS) )

\* a centre exactly 2 * TURRET_RADIUS from a turret was found valid
C4_Witness ==
  /\ draggingTurret.on
  /\ draggingTurret.colour = "green"
  /\ \E i \in 1..Len(turrets) :
       distanceToSquared(turrets[i].pos, draggingTurret.ghost)
         = (2 * TURRET_RADIUS) * (2 * TURRET_RADIUS)

\* C5: a turret pointer-up that is rejected (invalid position, or spendMana
\* failed) adds no turret and leaves turretTokens and staticColliders as they
\* were; when the position is invalid spendMana is not called and mana is
\* unchanged
C5_RejectedCommitChangesNothing ==
  [][ pointerUpTurret =>
        LET valid == isTurretPlacementValid(staticColliders, turrets, draggingTurret.ghost)
        IN  /\ (~ valid \/ mana < turretCost)
                 => /\ turrets' = turrets
                    /\ turretTokens' = turretTokens
                    /\ staticColliders' = staticColliders
            /\ ~ valid => (mana' = mana /\ ~ lastUp'.spendCalled) ]_vars

\* a commit at a valid spot was refused for lack of mana
C5_Witness ==
  /\ lastUp.kind = "refused"
  /\ mana < turretCost
  /\ Len(turrets) = 2

\* C6: while every candidate of a rock or fence instance has been rejected,
\* staticColliders is as it was when the instance began; when the attempts
\* are exhausted the loop is not stuck: it moves on to the next instance
C6_SkippedInstanceLeavesColliders ==
  (pc \in BuildLoops /\ ~ placed) =>
    /\ staticColliders = instStart
    /\ (pc = "rockLoop" /\ loopN < rockCount /\ attempt = maxAttempts) => ENABLED rockNext
    /\ (pc = "fenceLoop" /\ loopN < fenceCount /\ attempt = maxAttempts) => ENABLED fenceNext

\* a rock instance has used up its attempts, after an earlier rock was placed
C6_Witness ==
  /\ pc = "rockLoop"
  /\ attempt = maxAttempts
  /\ ~ placed
  /\ LogOfKind("rock") # {}

\* work left in the running loop: it is never negative and every step of
\* the loop lowers it
LoopRank ==
  LET count == IF pc = "rockLoop" THEN rockCount ELSE fenceCount
  IN  (count - loopN) * (maxAttempts + 2) + (maxAttempts + 1 - attempt)

\* 1 when the running instance has been placed, else 0
PlacedNow == IF placed THEN 1 ELSE 0

\* C7: scattered placement terminates whatever is sampled: an instance makes
\* at most maxAttempts attempts and none after its first accepted one, so at
\* most one box is appended per instance, at most rockCount rock boxes and
\* fenceCount fence boxes in all
C7_BoundedSampling ==
  /\ [] ( /\ attempt <= maxAttempts
          /\ pc = "rockLoop" => loopN <= rockCount
          /\ pc = "fenceLoop" => loopN <= fenceCount
          /\ pc \in BuildLoops => /\ Len(staticColliders) <= Len(instStart) + 1
                                  /\ LoopRank >= 0
          /\ pc = "rockLoop" => Cardinality(LogOfKind("rock")) <= loopN + PlacedNow
          /\ pc = "fenceLoop" => Cardinality(LogOfKind("fence")) <= loopN + PlacedNow
          /\ Cardinality(LogOfKind("rock")) <= rockCount
          /\ Cardinality(LogOfKind("fence")) <= fenceCount )
  /\ [][ /\ (pc \in BuildLoops /\ pc' = pc) => LoopRank' < LoopRank
         /\ (pc \in BuildLoops /\ placed) => attempt' # attempt + 1 ]_vars

\* the fence loop has ended with two fences placed
C7_Witness ==
  /\ pc = "then"
  /\ Cardinality(LogOfKind("fence")) = 2

\* C8: an enemy whose takeDamage returned true leaves the live collection
\* before anything else is processed: no dead enemy is ever in the collection
\* when a frame's loops look at it, and takeDamage is never called on one
\* again (so removeEnemy, which only follows a lethal takeDamage, is called
\* once), for kills by bullets and by the knife alike
C8_DeadEnemiesGoAtOnce ==
  /\ ~ trace.deadHit
  /\ ~ trace.deadProcessed
  /\ \A k \in 1..Len(enemies) : ~ enemies[k].dead /\ enemies[k].health > 0

\* an enemy was killed while another, wounded one lives on
C8_Witness ==
  /\ trace.kills >= 1
  /\ Len(enemies) = 1
  /\ enemies[1].health < enemyHealth

\* C9: a bullet that is within collision distance of a live enemy in the
\* bullet pass is gone from bullets after that frame, lethal hit or not, and
\* no bullet ever damages more than one enemy: a bullet still in the
\* collection has damaged none
C9_BulletHitsOnce ==
  /\ ~ trace.multiHit
  /\ \A i \in 1..Len(bullets) :
       bullets[i].age >= 1 =>
         \A k \in 1..Len(enemies) :
           distanceToSquared(bulletPosition(bullets[i]), enemies[k].pos)
             >= (bulletRadius + enemyRadius) * (bulletRadius + enemyRadius)

\* a bullet wounded an enemy without killing it and is gone
C9_Witness ==
  /\ trace.wounds = 1
  /\ trace.kills = 0
  /\ Len(enemies) = 2
  /\ \E i \in 1..Len(bullets) : bullets[i].age >= 1

\* C10: every bullet added to bullets is removed again while frames keep
\* running: no bullet that has outlived its lifetime is still in the collection
C10_NoExpiredBullet ==
  \A i \in 1..Len(bullets) : bullets[i].age <= bulletLifetime

(***************************************************************************)
(* Properties of the knife callback and of the passes, read off the log    *)
(***************************************************************************)
\* the positions in the log of the events of one kind
Events(kind) == { k \in 1..Len(trace.log) : trace.log[k].ev = kind }

\* the melee predicate: nearer than the melee range, and in the half-space the
\* attacker faces
MeleeTarget(forward, e) ==
  /\ distanceToSquared(e.pos, playerPosition) < knifeRange * knifeRange
  /\ dot(forward, sub(e.pos, playerPosition)) > 0

TestsOf(e) == { t \in Events("test") : trace.log[t].id = e.id }

StrikesOf(e) == { t \in Events("strike") : trace.log[t].before.id = e.id }

\* C11: in a knife-hit event, every enemy that is in the live collection when
\* the event starts is tested against the melee predicate exactly once, and
\* every enemy that satisfies it takes the damage exactly once, also when
\* enemies earlier in the pass are killed and removed during the pass
C11_KnifeVisitsEveryEnemyOnce ==
  \A k \in Events("knife") :
    \A j \in 1..Len(trace.log[k].live) :
      LET e == trace.log[k].live[j]
      IN  /\ Cardinality(TestsOf(e)) = 1
          /\ MeleeTarget(trace.log[k].forward, e) => Cardinality(StrikesOf(e)) = 1

UpdatesOf(kind, x) ==
  { u \in Events("update") : trace.log[u].kind = kind /\ trace.log[u].id = x.id }

\* C12: in the per-tick passes over bullets, pickups and molotovs, each element
\* present at the start of the pass is updated exactly once, and nothing else
\* is updated, whatever is removed in place during the pass
C12_PassesVisitEveryElementOnce ==
  \A p \in Events("pass") :
    LET kind == trace.log[p].kind
        live == trace.log[p].live
    IN  /\ \A j \in 1..Len(live) : Cardinality(UpdatesOf(kind, live[j])) = 1
        /\ \A u \in Events("update") :
             trace.log[u].kind = kind => trace.log[u].id \in ids(live)

\* a pickup pass over three hearts has spliced out the last and the first of
\* them and kept the one between
C12_Witness ==
  \E p \in Events("pass") :
    /\ trace.log[p].kind = "pickup"
    /\ Len(trace.log[p].live) = 3
    /\ ids(pickups) = { 2 }

\* C13: in a knife-hit event an enemy receives takeDamage if and only if its
\* distance to the player is strictly below the melee range and the dot
\* product of the player's forward vector with the vector to the enemy is
\* strictly positive; an enemy failing either test is left as it was, in the
\* collection
C13_KnifeDamagesExactlyTheTargets ==
  \A k \in Events("knife") :
    \A j \in 1..Len(trace.log[k].live) :
      LET e == trace.log[k].live[j]
      IN  /\ StrikesOf(e) # { } <=> MeleeTarget(trace.log[k].forward, e)
          /\ ~ MeleeTarget(trace.log[k].forward, e) =>
               \E n \in 1..Len(enemies) : enemies[n] = e

RemovalsOf(e) == { r \in Events("remove") : trace.log[r].enemy.id = e.id }

StillLive(e) == { n \in 1..Len(enemies) : enemies[n].id = e.id }

\* the enemy is straight above or below the attacker
Overhead(e) == e.pos.x = playerPosition.x /\ e.pos.z = playerPosition.z

\* C14: a melee hit has exactly one of two outcomes: a lethal hit removes the
\* enemy and leaves its velocity as it was; a hit that is not lethal leaves the
\* enemy in the collection and changes its velocity by a vector of magnitude
\* damage * 0.5 / mass, or by nothing when the enemy is straight above or below
\* the attacker
C14_KnifeHitRemovesOrPushes ==
  \A s \in Events("strike") :
    LET e      == trace.log[s].before
        damage == trace.log[s].damage
    IN  IF trace.log[s].lethal
          THEN /\ StillLive(e) = { }
               /\ Cardinality(RemovalsOf(e)) = 1
               /\ \A r \in RemovalsOf(e) : trace.log[r].enemy.velocity = e.velocity
          ELSE /\ RemovalsOf(e) = { }
               /\ Cardinality(StillLive(e)) = 1
               /\ \A n \in StillLive(e) :
                    LET dv == sub(enemies[n].velocity, e.velocity)
                    IN  IF Overhead(e) THEN dv = Vec3(0, 0, 0)
                        ELSE 4 * e.mass * e.mass * lengthSq(dv) = damage * damage

\* one knife hit has pushed an enemy and killed another
C14_Witness ==
  \E a, b \in Events("strike") :
    /\ trace.log[a].lethal
    /\ ~ trace.log[b].lethal
    /\ \A n \in StillLive(trace.log[b].before) :
         enemies[n].velocity # trace.log[b].before.velocity

\* C15: the velocity delta a knife hit adds to an enemy has no vertical
\* component, and its horizontal part points the way the horizontal part of
\* the vector from the player to the enemy points, never back at the attacker
C15_KnockbackFlatAndAway ==
  \A s \in Events("strike") :
    LET e == trace.log[s].before
        h == setY(sub(e.pos, playerPosition), 0)
    IN  \A n \in StillLive(e) :
          LET dv == sub(enemies[n].velocity, e.velocity)
          IN  /\ dv.y = 0
              /\ dv.x * h.z - dv.z * h.x = 0
              /\ dot(dv, h) >= 0
              /\ (h # Vec3(0, 0, 0) /\ ~ trace.log[s].lethal) => dot(dv, h) > 0

\* an enemy lower than the player and off the player's axis has been pushed
C15_Witness ==
  \E s \in Events("strike") :
    LET e == trace.log[s].before
    IN  /\ ~ trace.log[s].lethal
        /\ e.pos.y # playerPosition.y
        /\ e.pos.x # playerPosition.x
        /\ \E n \in StillLive(e) :
             /\ enemies[n].velocity.x # e.velocity.x
             /\ enemies[n].velocity.z # e.velocity.z

DamagesOf(e) == { d \in Events("damage") : trace.log[d].enemy.id = e.id }

\* C16: the damage a bullet deals on a hit is bullet.damage whenever that is
\* set, an explicit 0 included, and 0.5 * mass * |velocity|^2 * 0.02 otherwise
\* (in 1/100 health points: 100 for mass 1 and speed 10); it is what the enemy
\* hit loses
C16_BulletDamage ==
  \A d \in Events("damage") :
    LET b   == trace.log[d].bullet
        e   == trace.log[d].enemy
        dmg == trace.log[d].dmg
    IN  /\ b.damage # << >> => dmg = b.damage[1]
        /\ b.damage = << >> => 100 * dmg = 2 * (50 * b.mass * b.vsq)
        /\ (b.damage = << >> /\ b.mass = 1 /\ b.vsq = 10 * 10) => dmg = 100
        /\ (DamagesOf(e) = { d } /\ dmg < e.health) =>
             \A n \in StillLive(e) : enemies[n].health = e.health - dmg

\* a bullet whose damage is set to 0 has hit an enemy, which lost nothing
C16_Witness ==
  \E d \in Events("damage") :
    /\ trace.log[d].bullet.damage = << 0 >>
    /\ trace.log[d].dmg = 0
    /\ DamagesOf(trace.log[d].enemy) = { d }
    /\ \E n \in StillLive(trace.log[d].enemy) : enemies[n].health = trace.log[d].enemy.health

(***************************************************************************)
(* Properties of the order of a frame, read off the log                    *)
(***************************************************************************)
EnemyUpdates == { u \in Events("update") : trace.log[u].kind = "enemy" }

\* melee resolution and bullet-enemy collision
Resolutions == Events("knife") \cup Events("strike") \cup Events("damage")

\* C17: within every unpaused tick the spawner update runs before any enemy
\* update, every enemy update runs before any combat resolution of the tick
\* (knife hits as well as bullet hits), and a dead enemy is removed after the
\* resolution that killed it
C17_SpawnerThenEnemiesThenCombat ==
  /\ \A s \in Events("spawner") : \A u \in EnemyUpdates : s < u
  /\ \A u \in EnemyUpdates : \A c \in Resolutions : u < c
  /\ \A r \in Events("remove") :
       \E c \in Events("strike") \cup Events("damage") : c < r

(***************************************************************************)
(* Properties of pause and game over                                       *)
(***************************************************************************)
\* the simulation state: enemies, spawner, bullets, turrets, molotovs,
\* pickups and the player
SimState ==
  <<enemies, enemySpawner, bullets, turrets, molotovs, pickups, playerHealth, mana>>

\* C18: every animate call made while the game is paused leaves the whole
\* simulation state as it was: the enemies, the spawner with its currentWave
\* and timer, bullets, turrets, molotovs, pickups and the player; and so for
\* every paused frame until togglePause resumes
C18_PausedFramesChangeNothing ==
  [][(paused /\ paused') => UNCHANGED SimState]_vars

\* a frame has returned early in a paused game with a live enemy, a bullet in
\* flight, a turret, and a spawner whose timer is running
C18_Witness ==
  /\ paused
  /\ ~ isGameOver
  /\ trace.early
  /\ enemies # << >>
  /\ bullets # << >>
  /\ turrets # << >>
  /\ enemySpawner.timer = 1

\* C19: isGameOver, once true, never becomes false again, and every animate
\* call made while it is true applies no gameplay update (player, spawner,
\* enemies, bullets, pickups, turrets, molotovs) and still renders and
\* schedules the next frame
C19_GameOverIsFinal ==
  [][isGameOver =>
       /\ isGameOver'
       /\ (paused' = paused) =>
            /\ UNCHANGED SimState
            /\ trace'.rendered
            /\ trace'.scheduled]_vars

\* a frame has returned early after the player's death, in a game that is not
\* paused, with enemies on the field
C19_Witness ==
  /\ isGameOver
  /\ ~ paused
  /\ trace.early
  /\ trace.rendered
  /\ trace.scheduled
  /\ playerHealth = 0
  /\ enemies # << >>

(***************************************************************************)
(* Properties of the pathfinder bake                                       *)
(***************************************************************************)
\* C20: every box the world build registered in staticColliders is passed to
\* the pathfinder's addCollider exactly once; all of them are baked before the
\* enemy spawner is created and before the first tick, and no tick can run
\* without the pathfinder or the spawner
C20_BakedBeforeSpawnerAndTicks ==
  /\ pathfinder.made => pathfinder.baked = staticColliders
  /\ enemySpawner.made =>
       /\ pathfinder.made
       /\ enemySpawner.pathfinder
       /\ enemySpawner.bakes = Len(staticColliders)
  /\ ENABLED animate =>
       /\ pathfinder.made
       /\ enemySpawner.made
       /\ pathfinder.baked = staticColliders

\* the build has ended with vehicles and rocks placed, and the frames run
C20_Witness ==
  /\ ENABLED animate
  /\ Cardinality(LogOfKind("vehicle")) = 2
  /\ LogOfKind("rock") # { }
  /\ Len(pathfinder.baked) = Len(staticColliders)
  /\ enemySpawner.made

(***************************************************************************)
(* C21: once the frame loop runs, the static world is read-only            *)
(***************************************************************************)
\* C21: from the then-callback's start() on, no step appends to or changes
\* staticColliders and none hands the pathfinder another box; a turret that is
\* committed between two frames leaves both as they were
C21_WorldFrozenOnceRunning ==
  [][pc = "running" => UNCHANGED <<staticColliders, pathfinder>>]_vars

\* a turret was committed after the first frame had run (the frame found the
\* mana full, the commit then spent turretCost), with the world built and baked
C21_Witness ==
  /\ pc = "running"
  /\ trace.frames = 1
  /\ Len(turrets) = 1
  /\ lastUp.kind = "committed"
  /\ mana = playerMaxMana - turretCost
  /\ Len(pathfinder.baked) = Len(staticColliders)
  /\ Len(staticColliders) > 0

(***************************************************************************)
(* C22: staticColliders only grows                                         *)
(***************************************************************************)
\* C22: no step of the build or of the bake removes an entry of staticColliders
\* or alters a stored box; an attempt of the rock or fence loop appends at most
\* one box, and only one that passed validation against everything stored (a
\* rejected candidate is not appended); the bake of the then-callback leaves
\* the list as it was
C22_CollidersOnlyGrow ==
  [][/\ Len(staticColliders') >= Len(staticColliders)
     /\ \A i \in 1..Len(staticColliders) : staticColliders'[i] = staticColliders[i]
     /\ (pc \in BuildLoops /\ attempt' = attempt + 1) =>
          /\ Len(staticColliders') <= Len(staticColliders) + 1
          /\ Len(staticColliders') = Len(staticColliders) + 1 =>
               /\ ~ some(staticColliders, staticColliders'[Len(staticColliders')])
               /\ placed'
     /\ pc = "then" => staticColliders' = staticColliders]_vars

\* the world is built and baked with a rock stored, and later rock instances
\* were given up: the scratch box was refilled for candidates that were
\* rejected while a box cloned from it was already stored
C22_Witness ==
  /\ pc = "running"
  /\ pathfinder.made
  /\ pathfinder.baked = staticColliders
  /\ LogOfKind("rock") # {}
  /\ Cardinality(LogOfKind("rock")) < rockCount

(***************************************************************************)
(* C23: turrets and the pause key                                          *)
(***************************************************************************)
\* C23: while the game is paused every turret of this.turrets is switched off,
\* a turret committed during the pause included
C23_PausedTurretsInactive ==
  paused => \A k \in 1..Len(turrets) : ~ turrets[k].active

GameplayEvents == {"update", "damage", "remove", "strike"}

\* C25: once onPlayerDeath has set isGameOver in a frame, that frame applies no
\* further gameplay update: no enemy or bullet is updated, damaged or removed
\* after the death
C25_NothingAfterDeath ==
  \A i \in 1..Len(trace.log) : \A j \in 1..Len(trace.log) :
    (trace.log[i].ev = "death" /\ i < j) => trace.log[j].ev \notin GameplayEvents

(***************************************************************************)
(* C26: one hit per attack cycle                                           *)
(***************************************************************************)
\* C26: an attacking enemy has hit the player at most once since its attack
\* animation last looped or it was last out of the attack state, and no hit
\* was ever applied from a distance of attackRange or more
C26_OneHitPerCycle ==
  \A k \in 1..Len(enemies) :
    /\ enemies[k].cycleHits <= 1
    /\ ~ enemies[k].farHit
    /\ enemies[k].cycleHits = 1 => enemies[k].hasDamaged

\* one enemy has hit the player twice: the later hit belongs to its current
\* cycle, which a frame found at time 0, and the enemy is still within reach
C26_Witness ==
  /\ Len(enemies) = 1
  /\ playerHealth = playerMaxHealth - 2 * attackDamage
  /\ enemies[1].cycleHits = 1
  /\ enemies[1].lastAttackCycleTime = 0
  /\ distanceToSquared(enemies[1].pos, playerPosition) < attackRange * attackRange

(***************************************************************************)
(* C27: onPlayerDeath is handled once                                      *)
(***************************************************************************)
\* C27: however often onPlayerDeath is called, the scene holds one spotlight
\* and one game-over timer was set, exactly when the game is over, and none
\* before; so the game-over panel is shown at most once
C27_DeathHandledOnce ==
  /\ deathScene.spots = (IF isGameOver THEN 1 ELSE 0)
  /\ deathScene.timers + deathScene.panels = (IF isGameOver THEN 1 ELSE 0)
  /\ deathScene.panels <= 1

\* onPlayerDeath was called twice in the frame in which the player died (two
\* enemies hit), and the one timer has fired and shown the panel
C27_Witness ==
  /\ isGameOver
  /\ trace.deathCalls >= 2
  /\ deathScene.spots = 1
  /\ deathScene.timers = 0
  /\ deathScene.panels = 1

(***************************************************************************)
(* C28: turrets and spawner after the player's death                       *)
(***************************************************************************)
\* C28: once onPlayerDeath has run, every turret stays switched off and the
\* enemy spawner stays paused, whatever input arrives afterwards
C28_FrozenAfterDeath ==
  isGameOver =>
    /\ \A k \in 1..Len(turrets) : ~ turrets[k].active
    /\ enemySpawner.paused

(***************************************************************************)
(* Properties of the tokens                                                *)
(***************************************************************************)
\* C29: molotovTokens never becomes negative, for any interleaving of
\* molotov drag starts and drops, a second drag started and dropped while an
\* earlier drop still awaits the import of the Molotov module included
C29_MolotovTokensNeverNegative == molotovTokens >= 0

\* C30: turretTokens never becomes negative: a turret drag starts only while
\* turretTokens > 0, and a token is spent only by a pointer-up of an active
\* drag that places a turret, one token per turret
C30_TurretTokensNeverNegative ==
  /\ [](turretTokens >= 0)
  /\ [][/\ (~ draggingTurret.on /\ draggingTurret'.on) => turretTokens > 0
        /\ (draggingTurret.on /\ draggingTurret' # draggingTurret /\ draggingTurret'.on)
             => turretTokens > 0
        /\ turretTokens' # turretTokens =>
             /\ draggingTurret.on
             /\ ~ draggingTurret'.on
             /\ turretTokens' = turretTokens - 1
             /\ Len(turrets') = Len(turrets) + 1]_vars

\* the last token has been spent on a turret and a further drag start was refused
C30_Witness ==
  /\ turretTokens = 0
  /\ Len(turrets) > 0
  /\ lastUp.kind = "committed"
  /\ ~ draggingTurret.on
  /\ onStartTurretDrag(draggingTurret) = draggingTurret

(***************************************************************************)
(* Properties of the turret commit                                         *)
(***************************************************************************)
\* C31: the turrets collection changes in length only by a commit (a pointer-up
\* of an active drag at a valid spot with the mana to pay); such a step adds
\* exactly one turret, takes exactly one token and exactly turretCost mana;
\* no other step changes turretTokens, so turrets.length + turretTokens stays
\* at the initial token count
C31_OneTurretPerCommit ==
  /\ [](Len(turrets) + turretTokens = initialTurretTokens)
  /\ [][/\ (Len(turrets') # Len(turrets) \/ turretTokens' # turretTokens) =>
             /\ pointerUpTurret
             /\ isTurretPlacementValid(staticColliders, turrets, draggingTurret.ghost)
             /\ spendMana(mana, turretCost)
        /\ (pointerUpTurret /\ lastUp'.kind = "committed") =>
             /\ turrets' = Append(turrets, Turret(draggingTurret.ghost))
             /\ turretTokens' = turretTokens - 1
             /\ mana' = mana - turretCost
             /\ lastUp'.spendCalled]_vars

\* two commits have been made and a frame has run
C31_Witness ==
  /\ Len(turrets) = 2
  /\ turretTokens = initialTurretTokens - 2
  /\ lastUp.kind = "committed"
  /\ trace.frames > 0

\* C32: a turret is constructed only after the world build has finished: the
\* then-callback has run (so initEnemySpawner has made the spawner the turret
\* is given) and staticColliders holds every box of the build
C32_CommitOnlyAfterBuild ==
  [][Len(turrets') > Len(turrets) => (pc = "running" /\ enemySpawner.made)]_vars

C34_NoAttackWhileDragging ==
  (draggingTurret.on \/ draggingMolotov) => ~ mouseLeft

\* C35: a pointer-move during a turret drag, with the isTurretPlacementValid
\* call it makes, changes neither staticColliders, the turrets, turretTokens
\* nor the mana: the drag stays active and only the ghost's position and
\* colour change, the colour showing the verdict for the new position
C35_ValidationReadOnly ==
  [][pointerMove =>
       /\ UNCHANGED <<staticColliders, turrets, turretTokens, mana>>
       /\ UNCHANGED <<buildVars, lastUp, molotovVars, inputVars, simVars>>
       /\ draggingTurret'.on
       /\ draggingTurret'.colour \in {"green", "red"}
       /\ draggingTurret'.ghost # draggingTurret.ghost =>
            (draggingTurret'.colour = "green") =
              isTurretPlacementValid(staticColliders', turrets', draggingTurret'.ghost)]_vars

\* the ghost has been moved next to the one turret placed and shows red, with
\* the token and the mana of that one turret spent and nothing else
C35_Witness ==
  /\ Len(turrets) = 1
  /\ draggingTurret.on
  /\ draggingTurret.colour = "red"
  /\ draggingTurret.ghost # turrets[1].pos
  /\ turretTokens = initialTurretTokens - 1
  /\ mana = playerMaxMana - turretCost

(***************************************************************************)
(* Properties of the clock                                                 *)
(***************************************************************************)
\* C36: time that passes while the game is paused is never given to the
\* updates: the deltas the updates have received and the time spent in pause
\* together never exceed the time that has passed, and the first frame that
\* runs the updates after a resume is given exactly the time since
\* togglePause resumed the clock
C36_PausedTimeNotApplied ==
  /\ [](clock.simTime + clock.pausedTime <= clock.now)
  /\ [][(clock.fresh /\ ~ clock'.fresh) =>
          /\ clock'.applied
          /\ clock'.delta = clock.now - clock.resumedAt]_vars

\* time passed before a pause, during it and after the resume, and the first
\* frame after the resume has run the updates
C36_Witness ==
  /\ clock.applied
  /\ ~ clock.fresh
  /\ clock.resumedAt > clock.pausedTime
  /\ clock.pausedTime > 0
  /\ clock.delta > 0
  /\ clock.delta = clock.now - clock.resumedAt

====
